---- MODULE Spec2Model ----
(***************************************************************************)
(* Sequential ID counter service: the issuance and audit pipeline.         *)
(*                                                                         *)
(*   counter store  Redis key seq:<prefix>      (INCR / INCRBY / GET /     *)
(*                                               SET / WATCH+SET)          *)
(*   issuer         SequentialIDService.GetNext / GetNextBatch             *)
(*   queue          RabbitMQ durable queue + <queue>_dlq                   *)
(*   consumer       Worker.processEvent under RabbitMQRepository.          *)
(*                  ConsumeEvents (manual ack)                             *)
(*   audit store    PostgreSQL seq_log, seq_checkpoint, seq_reset_log      *)
(*   admin          SequentialIDService.ResetCounter                       *)
(*   reconciler     SequentialIDService.SyncCountersOnStartup              *)
(*                                                                         *)
(* Every blocking call to a store or to the broker is one step, so calls   *)
(* of concurrent requests interleave exactly where the code lets them.     *)
(***************************************************************************)
EXTENDS Integers, FiniteSets, Sequences, TLC

\* ------------------------------------------------------------- bounds
\* uuid.New() values minted for message ids over a run
MaxIds == 3
\* largest batch count a caller asks for
MaxCount == 2
\* largest set_to an administrator passes
MaxSet == 1
\* resets that take effect over a run
MaxResets == 1
\* a queue the worker finds at its start: messages in it, and the message ids
\* and counters they carry
MaxQueue == 2
MaxWire == 2
\* counters in the audit store, and in the counter store, when the API
\* process starts after a crash
MaxOld == 3
\* deliveries of one message that are counted: the count stops there
MaxDeliveries == 3
\* deliveries over a run that end without the handler's row: the audit store
\* does not answer, or the worker dies before the ack
MaxFaults == 3

\* ------------------------------------------------- program constants
MAX_BATCH == 1000
RETRY_LIMIT == 3

\* prefixes seen on the wire
Prefixes == {"SG", "PO"}
\* rows of seq_config
Configured == {"SG"}
Callers == {"c1", "c2"}
Workers == {"w1", "w2"}
Admins == {"a1"}
\* the connections a reset may run on: the administrators' and one more
AdminConns == {"a1", "a2"}

\* message ids on the wire: the minted ones are 1..MaxIds
Mids == 1..(MaxIds + 1)

\* seq:<prefix> does not exist
Absent == -1
NoBatch == 0

VARIABLES
    seq,        \* counter store: [Prefixes -> Absent or the key's value]
    call,       \* per caller: the request in progress
    issued,     \* every IssuedID returned to a caller so far
    lostAudit,  \* message ids logged "Failed to publish audit event"
    nextMid,    \* uuids minted so far for message ids
    nextBatch,  \* uuids minted so far for batch ids
    nadv,       \* advances the counter store has serialized so far
    epoch,      \* per prefix: resets that took effect
    start,      \* per prefix: the counter at the start of the epoch
    queue,      \* broker: messages ready for delivery
    work,       \* consumers: the unacknowledged delivery each one holds
    acked,      \* broker: messages removed by acknowledgement
    dlq,        \* broker: the dead-letter queue
    deliv,      \* per message id: times the message was handed to a handler,
                \* counted up to MaxDeliveries
    faults,     \* deliveries so far that the store or a dying worker failed
    rows,       \* audit store: seq_log
    adm,        \* per administrator: the reset in progress, or its reply
    resetLog,   \* audit store: seq_reset_log
    checkpoint, \* audit store: seq_checkpoint
    nextReset,  \* uuids minted so far for reset ids
    recon,      \* API process: the startup reconciler's position and what
                \* it read; "serving" once the servers listen
    config,     \* audit store: seq_config, the row of each configured prefix
    year,       \* time.Now().Year()
    errs,       \* API process: the error replies given so far
    cancelled   \* API process: the requests (by serial) whose context was
                \* cancelled after their advance

vars == <<seq, call, issued, lostAudit, nextMid, nextBatch, nadv, epoch,
          start, queue, work, acked, dlq, deliv, faults, rows, adm, resetLog,
          checkpoint, nextReset, recon, config, year, errs, cancelled>>

brokerVars == <<queue, work, acked, dlq, deliv, faults>>
resetVars == <<resetLog, checkpoint, nextReset, epoch, start>>
confVars == <<config, year>>

\* ------------------------------------------------------ counter store
\* RedisRepository.GetCounter: redis.Nil reads as 0
GetCounter(p) == IF seq[p] = Absent THEN 0 ELSE seq[p]

\* a batch advance that issues INCR, adding 1 whatever the count
IncrementCounterBy_one(p, k) == GetCounter(p) + 1

\* RedisRepository.IncrementCounterBy: INCRBY, one atomic command of the store;
\* the value it returns is the value it leaves in the key
IncrementCounterBy(p, k) == GetCounter(p) + k

\* client-side arithmetic in place of INCR: GET, add one, SET. A request that
\* read while another was between its own read and its write stores the
\* same value as that one
IncrementCounter_clientSide(p) ==
    LET stale == {call[c].from : c \in {d \in Callers : /\ call[d].pc = "publish"
                                                         /\ call[d].prefix = p
                                                         /\ call[d].ep = epoch[p]}}
    IN IF stale = {} THEN GetCounter(p) + 1 ELSE (CHOOSE v \in stale : TRUE) + 1

\* RedisRepository.IncrementCounter: INCR
IncrementCounter(p) == IncrementCounterBy(p, 1)

\* a write to seq:<p> invalidates every WATCH held on it
Touch(p) == [a \in AdminConns |->
               IF adm[a].pc = "exec" /\ adm[a].prefix = p
               THEN [adm[a] EXCEPT !.dirty = TRUE] ELSE adm[a]]

\* ---------------------------------------------------------- formatter
\* a format template as fmt reads it: literal text, "%s", "%d" (width 0) and
\* "%0Nd" (width N)
Lit(s) == [t |-> "lit", s |-> s]
VerbS == [t |-> "s"]
VerbD(w) == [t |-> "d", w |-> w]

\* strings.Contains(template, "%s"), (template, "%d"), (template, "%06d"),
\* (template, "%04d"): the verb as written, so "%06d" does not contain "%d"
Contains(template, verb) == \E i \in 1..Len(template) : template[i] = verb

\* arguments of fmt.Sprintf with their Go types
StringArg(s) == [ty |-> "string", s |-> s]
IntArg(ty, n) == [ty |-> ty, s |-> ToString(n)]

\* the 0 flag: leading zeros up to the width
RECURSIVE ZeroPad(_, _)
ZeroPad(s, w) == IF Len(s) >= w THEN s ELSE ZeroPad("0" \o s, w)

\* fmt: one verb applied to one argument; a verb that does not fit the
\* argument's type prints %!verb(type=value)
FormatVerb(verb, arg) ==
    IF verb.t = "s"
    THEN IF arg.ty = "string" THEN arg.s
         ELSE "%!s(" \o arg.ty \o "=" \o arg.s \o ")"
    ELSE IF arg.ty = "string" THEN "%!d(string=" \o ZeroPad(arg.s, verb.w) \o ")"
         ELSE ZeroPad(arg.s, verb.w)

\* fmt: arguments left over after the last verb
RECURSIVE ExtraArgs(_)
ExtraArgs(args) ==
    IF args = <<>> THEN ""
    ELSE Head(args).ty \o "=" \o Head(args).s
         \o (IF Tail(args) = <<>> THEN "" ELSE ", " \o ExtraArgs(Tail(args)))

\* fmt.Sprintf: verbs take the arguments in order; a verb without argument
\* prints %!verb(MISSING)
RECURSIVE Sprintf(_, _)
Sprintf(template, args) ==
    IF template = <<>>
    THEN IF args = <<>> THEN "" ELSE "%!(EXTRA " \o ExtraArgs(args) \o ")"
    ELSE LET h == Head(template)
         IN IF h.t = "lit" THEN h.s \o Sprintf(Tail(template), args)
            ELSE IF args = <<>>
                 THEN "%!" \o h.t \o "(MISSING)" \o Sprintf(Tail(template), args)
                 ELSE FormatVerb(h, Head(args))
                        \o Sprintf(Tail(template), Tail(args))

\* SequentialIDService.formatID (yr: time.Now().Year())
formatID(cfg, counter, yr) ==
    IF Contains(cfg.template, VerbS) /\ Contains(cfg.template, VerbD(0))
    THEN IF Contains(cfg.template, VerbD(6))
         THEN Sprintf(cfg.template, <<StringArg(cfg.prefix), IntArg("int64", counter)>>)
         ELSE IF Contains(cfg.template, VerbD(4))
              THEN Sprintf(cfg.template, <<IntArg("int", yr), IntArg("int64", counter)>>)
              ELSE Sprintf(cfg.template, <<StringArg(cfg.prefix), IntArg("int64", counter)>>)
    ELSE IF Contains(cfg.template, VerbD(0))
         THEN Sprintf(cfg.template, <<IntArg("int64", counter)>>)
         ELSE Sprintf(<<VerbS, VerbD(cfg.padding)>>,
                      <<StringArg(cfg.prefix), IntArg("int64", counter)>>)

\* PostgresRepository.GetPrefixConfig: the row of the prefix, nil when
\* seq_config has none (sql.ErrNoRows)
NoConfig == [prefix |-> "", none |-> TRUE]
GetPrefixConfig_default(p) ==
    IF p \in DOMAIN config THEN config[p]
    ELSE [prefix |-> p, padding |-> 6, template |-> <<VerbS, VerbD(6)>>]
GetPrefixConfig(p) == IF p \in DOMAIN config THEN config[p] ELSE NoConfig

\* seq_config as the migration seeds it: ('SG', 6, '%s%06d')
SeedConfig == [p \in Configured |->
                [prefix |-> p, padding |-> 6, template |-> <<VerbS, VerbD(6)>>]]
SeedYear == 2025

\* ------------------------------------------------------------- issuer
IdleCall == [pc |-> "idle"]

\* main: the REST and gRPC servers are started after SyncCountersOnStartup
Serving == [pc |-> "serving"]

\* a caller may start a request when it has none in progress
Free(c) == recon.pc = "serving" /\ call[c].pc = "idle"

\* the entry takes new requests: both servers from their start; after the
\* signal restServer.Shutdown closes the REST listener at once, the gRPC server
\* keeps its own until main reaches grpcServer.GracefulStop
Accepting(via) ==
    IF via = "rest" THEN recon.pc = "serving"
    ELSE recon.pc \in {"serving", "rest_shutdown"}

\* startCounter without the "+ 1": the range starts at the value before the
\* advance
CounterAt_fromOld(c, i) == (call[c].end - call[c].k) + i

\* startCounter + i of a request in progress (i from 0)
CounterAt(c, i) == (call[c].end - call[c].k + 1) + i

\* time.Time: an instant in seconds and nanoseconds
Time(s, n) == [sec |-> s, nsec |-> n]

\* t.Format(time.RFC3339) read back: the seconds, no fraction
RFC3339(t) == Time(t.sec, 0)

\* time.Time's MarshalJSON (RFC3339Nano) read back by UnmarshalJSON: the
\* seconds and the nine digits of the fraction
RFC3339Nano(t) == Time(t.sec, t.nsec)

\* TIMESTAMP WITH TIME ZONE: the store keeps microseconds and rounds what it
\* is given to the nearest
Timestamptz(t) ==
    LET us == (t.nsec + 500) \div 1000
    IN IF us = 1000000 THEN Time(t.sec + 1, 0) ELSE Time(t.sec, us * 1000)

\* what a handler passes to GetNext, and time.Now() at the id's construction:
\* here a REST request without client_id and generated_by, on the second
PlainRequest ==
    [via |-> "rest", clientID |-> "", generatedBy |-> "", correlationID |-> "",
     at |-> Time(0, 0)]

\* models.SequentialID as the service returns it: ids[idx] of the reply, tagged
\* with the request's operation, count, entry and correlation id, the epoch,
\* and the place in the store's serialization order of the advance it came
\* from
SeqID(c, mid) ==
    [mid |-> mid, prefix |-> call[c].prefix,
     counter |-> CounterAt(c, Len(call[c].ids)),
     full |-> formatID(GetPrefixConfig(call[c].prefix),
                       CounterAt(c, Len(call[c].ids)), year),
     batch |-> call[c].batch, idx |-> Len(call[c].ids), op |-> call[c].op,
     k |-> call[c].k, from |-> call[c].from, epoch |-> call[c].ep,
     serial |-> call[c].serial, via |-> call[c].req.via,
     clientID |-> call[c].req.clientID,
     generatedBy |-> call[c].req.generatedBy, at |-> call[c].req.at,
     correlationID |-> call[c].req.correlationID]

\* models.Event built from an id, as json.Marshal writes it and json.Unmarshal
\* reads it: retry_count 0, and CorrelationID set in GetNextBatch's loop only
EventOf(id) == [mid |-> id.mid, prefix |-> id.prefix, counter |-> id.counter,
                batch |-> id.batch, retry |-> 0, full |-> id.full,
                clientID |-> id.clientID, generatedBy |-> id.generatedBy,
                at |-> RFC3339Nano(id.at),
                correlationID |-> IF id.op = "batch" THEN id.correlationID
                                  ELSE ""]

\* the advance of a request req for k ids and the request's state after it
AdvanceFor(c, p, k, op, b, new, req) ==
    /\ nadv + k <= MaxIds
    /\ seq' = [seq EXCEPT ![p] = new]
    /\ adm' = Touch(p)
    /\ nadv' = nadv + k
    /\ call' = [call EXCEPT ![c] =
                 [pc |-> "publish", op |-> op, prefix |-> p, k |-> k,
                  from |-> GetCounter(p), end |-> new, serial |-> nadv',
                  ep |-> epoch[p], batch |-> b, ids |-> <<>>, req |-> req]]

\* the advance of a plain request
Advance(c, p, k, op, b, new) == AdvanceFor(c, p, k, op, b, new, PlainRequest)

\* GetNext from the config lookup to the INCR
GetNextIncr(c, p) ==
    /\ Free(c)
    /\ GetPrefixConfig(p) # NoConfig
    /\ Advance(c, p, 1, "next", NoBatch, IncrementCounter(p))
    /\ UNCHANGED <<issued, lostAudit, nextMid, nextBatch, brokerVars, rows,
                   resetVars, recon, confVars, errs, cancelled>>

\* Handler.GetNext, the REST entry, from the query parameters to the INCR;
\* the handler reads client_id and generated_by, and no correlation id the
\* caller may have sent; now is time.Now() at the id's construction
RestGetNext(c, p, clientID, generatedBy, correlationID, now) ==
    /\ Free(c)
    /\ GetPrefixConfig(p) # NoConfig
    /\ AdvanceFor(c, p, 1, "next", NoBatch, IncrementCounter(p),
                  [via |-> "rest", clientID |-> clientID,
                   generatedBy |-> generatedBy, correlationID |-> correlationID,
                   at |-> now])
    /\ UNCHANGED <<issued, lostAudit, nextMid, nextBatch, brokerVars, rows,
                   resetVars, recon, confVars, errs, cancelled>>

\* Server.GetNext, the gRPC entry: GetNext(ctx, req.Prefix, req.ClientId,
\* req.CorrelationId), the correlation id in the place of generatedBy
GrpcGetNext(c, p, clientID, correlationID, now) ==
    /\ Accepting("grpc") /\ call[c].pc = "idle"
    /\ GetPrefixConfig(p) # NoConfig
    /\ AdvanceFor(c, p, 1, "next", NoBatch, IncrementCounter(p),
                  [via |-> "grpc", clientID |-> clientID,
                   generatedBy |-> correlationID, correlationID |-> correlationID,
                   at |-> now])
    /\ UNCHANGED <<issued, lostAudit, nextMid, nextBatch, brokerVars, rows,
                   resetVars, recon, confVars, errs, cancelled>>

\* the id as the caller receives it: the SequentialID as JSON from the REST
\* handler, the GetNextResponse from the gRPC server
IssuedID(id) ==
    IF id.via = "grpc"
    THEN [prefix |-> id.prefix, counter |-> id.counter, full |-> id.full,
          mid |-> id.mid, at |-> RFC3339(id.at)]
    ELSE [prefix |-> id.prefix, counter |-> id.counter, full |-> id.full,
          mid |-> id.mid, at |-> RFC3339Nano(id.at), clientID |-> id.clientID,
          generatedBy |-> id.generatedBy]

\* GetNext for a prefix without configuration row: the error reply
GetNextNotConfigured(c, p) ==
    /\ Free(c)
    /\ GetPrefixConfig(p) = NoConfig
    /\ errs' = errs \cup {[op |-> "next", prefix |-> p, err |-> "not configured"]}
    /\ UNCHANGED <<seq, call, issued, lostAudit, nextMid, nextBatch, nadv,
                   brokerVars, rows, adm, resetVars, recon, confVars, cancelled>>

\* the caller of a request that has advanced goes away: c.Request.Context()
\* is cancelled
Cancel(c) ==
    /\ call[c].pc = "publish"
    /\ call[c].serial \notin cancelled
    /\ cancelled' = cancelled \cup {call[c].serial}
    /\ UNCHANGED <<seq, call, issued, lostAudit, nextMid, nextBatch, nadv,
                   brokerVars, rows, adm, resetVars, recon, confVars, errs>>

\* a publish that gives the request up, silently, when its context is
\* cancelled
Publish_ctx(c, ok) ==
    LET mid == nextMid + 1
        id == SeqID(c, mid)
        ids == Append(call[c].ids, id)
        done == call[c].serial \in cancelled
    IN /\ nextMid' = mid
       /\ queue' = IF ok /\ ~done THEN queue \cup {EventOf(id)} ELSE queue
       /\ lostAudit' = IF ok \/ done THEN lostAudit ELSE lostAudit \cup {mid}
       /\ IF done
          THEN /\ call' = [call EXCEPT ![c] = IdleCall]
               /\ UNCHANGED issued
          ELSE IF Len(ids) = call[c].k
               THEN /\ call' = [call EXCEPT ![c] = IdleCall]
                    /\ issued' = issued \cup {ids[i] : i \in 1..Len(ids)}
               ELSE /\ call' = [call EXCEPT ![c].ids = ids]
                    /\ UNCHANGED issued
       /\ UNCHANGED <<seq, nextBatch, nadv, work, acked, dlq, deliv, faults,
                      rows, adm, resetVars, recon, confVars, errs, cancelled>>

\* a publish whose failure ends the request with an error, the ids built so
\* far and the rest of the batch dropped
Publish_failFast(c, ok) ==
    LET mid == nextMid + 1
        id == SeqID(c, mid)
        ids == Append(call[c].ids, id)
    IN /\ nextMid' = mid
       /\ queue' = IF ok THEN queue \cup {EventOf(id)} ELSE queue
       /\ lostAudit' = IF ok THEN lostAudit ELSE lostAudit \cup {mid}
       /\ IF ~ok
          THEN /\ call' = [call EXCEPT ![c] = IdleCall]
               /\ UNCHANGED issued
          ELSE IF Len(ids) = call[c].k
               THEN /\ call' = [call EXCEPT ![c] = IdleCall]
                    /\ issued' = issued \cup {ids[i] : i \in 1..Len(ids)}
               ELSE /\ call' = [call EXCEPT ![c].ids = ids]
                    /\ UNCHANGED issued
       /\ UNCHANGED <<seq, nextBatch, nadv, work, acked, dlq, deliv, faults,
                      rows, adm, resetVars, recon, confVars, errs, cancelled>>

\* a publish that compensates a failure with DECR before it replies
Publish_rollback(c, ok) ==
    LET mid == nextMid + 1
        id == SeqID(c, mid)
        ids == Append(call[c].ids, id)
    IN /\ nextMid' = mid
       /\ queue' = IF ok THEN queue \cup {EventOf(id)} ELSE queue
       /\ lostAudit' = IF ok THEN lostAudit ELSE lostAudit \cup {mid}
       /\ seq' = IF ok THEN seq ELSE [seq EXCEPT ![call[c].prefix] = @ - 1]
       /\ IF Len(ids) = call[c].k
          THEN /\ call' = [call EXCEPT ![c] = IdleCall]
               /\ issued' = issued \cup {ids[i] : i \in 1..Len(ids)}
          ELSE /\ call' = [call EXCEPT ![c].ids = ids]
               /\ UNCHANGED issued
       /\ UNCHANGED <<nextBatch, nadv, work, acked, dlq, deliv, faults, rows, adm,
                      resetVars, recon, confVars, errs, cancelled>>

\* RabbitMQRepository.PublishEvent of the next id of a request (ok: the broker
\* took it) and, after the last id, the reply to the caller
Publish(c, ok) ==
    LET mid == nextMid + 1
        id == SeqID(c, mid)
        ids == Append(call[c].ids, id)
    IN /\ nextMid' = mid
       /\ queue' = IF ok THEN queue \cup {EventOf(id)} ELSE queue
       /\ lostAudit' = IF ok THEN lostAudit ELSE lostAudit \cup {mid}
       /\ IF Len(ids) = call[c].k
          THEN /\ call' = [call EXCEPT ![c] = IdleCall]
               /\ issued' = issued \cup {ids[i] : i \in 1..Len(ids)}
          ELSE /\ call' = [call EXCEPT ![c].ids = ids]
               /\ UNCHANGED issued
       /\ UNCHANGED <<seq, nextBatch, nadv, work, acked, dlq, deliv, faults,
                      rows, adm, resetVars, recon, confVars, errs, cancelled>>

\* PublishEvent returns nil, channel.Publish having written the message to the
\* connection with no confirmation asked of the broker, and the connection
\* breaks or the broker goes down before the message is stored in the queue;
\* after the last id, the reply to the caller
Publish_unconfirmed(c) ==
    LET mid == nextMid + 1
        id == SeqID(c, mid)
        ids == Append(call[c].ids, id)
    IN /\ faults < MaxFaults
       /\ faults' = faults + 1
       /\ nextMid' = mid
       /\ IF Len(ids) = call[c].k
          THEN /\ call' = [call EXCEPT ![c] = IdleCall]
               /\ issued' = issued \cup {ids[i] : i \in 1..Len(ids)}
          ELSE /\ call' = [call EXCEPT ![c].ids = ids]
               /\ UNCHANGED issued
       /\ UNCHANGED <<seq, nextBatch, nadv, queue, lostAudit, work, acked, dlq,
                      deliv, rows, adm, resetVars, recon, confVars, errs,
                      cancelled>>

\* GetNext from the id's construction to the reply, the event lost on its way
GetNextPublishLost(c) ==
    /\ call[c].pc = "publish" /\ call[c].op = "next"
    /\ Publish_unconfirmed(c)

\* GetNext from the id's construction to the reply
GetNextPublish(c, ok) ==
    /\ call[c].pc = "publish" /\ call[c].op = "next"
    /\ Publish(c, ok)

\* a check of the count that only has the upper limit
ValidCount_upperOnly(k) == k <= MAX_BATCH

\* GetNextBatch's check of the count
ValidCount(k) == ~(k <= 0 \/ k > MAX_BATCH)

\* GetNextBatch from the checks to the INCRBY and the batch id
GetNextBatchIncr(c, p, k) ==
    /\ Free(c)
    /\ ValidCount(k)
    /\ GetPrefixConfig(p) # NoConfig
    /\ nextBatch' = nextBatch + 1
    /\ Advance(c, p, k, "batch", nextBatch', IncrementCounterBy(p, k))
    /\ UNCHANGED <<issued, lostAudit, nextMid, brokerVars, rows, resetVars, recon, confVars, errs, cancelled>>

\* Handler.GetNextBatch, the REST entry: the BatchRequest bound from the body,
\* from the checks to the INCRBY and the batch id; now is time.Now() after it
RestGetNextBatch(c, p, k, clientID, generatedBy, correlationID, now) ==
    /\ Free(c)
    /\ ValidCount(k)
    /\ GetPrefixConfig(p) # NoConfig
    /\ nextBatch' = nextBatch + 1
    /\ AdvanceFor(c, p, k, "batch", nextBatch', IncrementCounterBy(p, k),
                  [via |-> "rest", clientID |-> clientID,
                   generatedBy |-> generatedBy, correlationID |-> correlationID,
                   at |-> now])
    /\ UNCHANGED <<issued, lostAudit, nextMid, brokerVars, rows, resetVars, recon, confVars, errs, cancelled>>

\* an issuer that answers a failed INCR with the value it expects the counter
\* to have
GetNextIncrFail_guess(c, p, applied) ==
    /\ Free(c)
    /\ GetPrefixConfig(p) # NoConfig
    /\ faults < MaxFaults
    /\ faults' = faults + 1
    /\ nadv < MaxIds
    /\ nadv' = nadv + 1
    /\ seq' = IF applied THEN [seq EXCEPT ![p] = IncrementCounter(p)] ELSE seq
    /\ adm' = IF applied THEN Touch(p) ELSE adm
    /\ call' = [call EXCEPT ![c] =
                 [pc |-> "publish", op |-> "next", prefix |-> p, k |-> 1,
                  from |-> GetCounter(p), end |-> GetCounter(p) + 1,
                  serial |-> nadv', ep |-> epoch[p], batch |-> NoBatch,
                  ids |-> <<>>, req |-> PlainRequest]]
    /\ UNCHANGED <<issued, lostAudit, nextMid, nextBatch, queue, work, acked,
                   dlq, deliv, rows, resetVars, recon, confVars, errs, cancelled>>

\* GetNext when IncrementCounter returns an error (applied: the store ran the
\* INCR and the reply was lost; otherwise the command never reached it)
GetNextIncrFail(c, p, applied) ==
    /\ Free(c)
    /\ GetPrefixConfig(p) # NoConfig
    /\ faults < MaxFaults
    /\ faults' = faults + 1
    /\ seq' = IF applied THEN [seq EXCEPT ![p] = IncrementCounter(p)] ELSE seq
    /\ adm' = IF applied THEN Touch(p) ELSE adm
    /\ errs' = errs \cup {[op |-> "next", prefix |-> p,
                           err |-> "failed to increment counter"]}
    /\ UNCHANGED <<call, issued, lostAudit, nextMid, nextBatch, nadv, queue, work,
                   acked, dlq, deliv, rows, resetVars, recon, confVars, cancelled>>

\* GetNextBatch when IncrementCounterBy returns an error
GetNextBatchIncrFail(c, p, k, applied) ==
    /\ Free(c)
    /\ ValidCount(k)
    /\ GetPrefixConfig(p) # NoConfig
    /\ faults < MaxFaults
    /\ faults' = faults + 1
    /\ seq' = IF applied THEN [seq EXCEPT ![p] = IncrementCounterBy(p, k)] ELSE seq
    /\ adm' = IF applied THEN Touch(p) ELSE adm
    /\ errs' = errs \cup {[op |-> "batch", prefix |-> p,
                           err |-> "failed to increment counter"]}
    /\ UNCHANGED <<call, issued, lostAudit, nextMid, nextBatch, nadv, queue, work,
                   acked, dlq, deliv, rows, resetVars, recon, confVars, cancelled>>

\* GetNextBatch for a count outside 1..1000: the error reply, before the
\* configuration is looked up
GetNextBatchInvalid(c, p, k) ==
    /\ Free(c)
    /\ ~ValidCount(k)
    /\ errs' = errs \cup {[op |-> "batch", prefix |-> p, k |-> k,
                           err |-> "invalid count"]}
    /\ UNCHANGED <<seq, call, issued, lostAudit, nextMid, nextBatch, nadv,
                   brokerVars, rows, adm, resetVars, recon, confVars, cancelled>>

\* GetNextBatch for a prefix without configuration row: the error reply
GetNextBatchNotConfigured(c, p, k) ==
    /\ Free(c)
    /\ ValidCount(k)
    /\ GetPrefixConfig(p) = NoConfig
    /\ errs' = errs \cup {[op |-> "batch", prefix |-> p, err |-> "not configured"]}
    /\ UNCHANGED <<seq, call, issued, lostAudit, nextMid, nextBatch, nadv,
                   brokerVars, rows, adm, resetVars, recon, confVars, cancelled>>

\* GetNextBatch, one turn of the loop and, after the last turn, the reply
GetNextBatchPublish(c, ok) ==
    /\ call[c].pc = "publish" /\ call[c].op = "batch"
    /\ Publish(c, ok)

\* ----------------------------------------------------------- consumer
\* Worker.processEvent: the seq_log row built from an event
AuditLogOf(e) == [prefix |-> e.prefix, counter |-> e.counter, mid |-> e.mid,
                  batch |-> e.batch, full |-> e.full, clientID |-> e.clientID,
                  generatedBy |-> e.generatedBy, at |-> e.at,
                  correlationID |-> e.correlationID]

\* seq_log.id BIGSERIAL: the id RETURNING gives the inserted row
Stored(r) == [id |-> Cardinality(rows) + 1, prefix |-> r.prefix,
              counter |-> r.counter, mid |-> r.mid, batch |-> r.batch,
              full |-> r.full, clientID |-> r.clientID,
              generatedBy |-> r.generatedBy, at |-> Timestamptz(r.at),
              correlationID |-> r.correlationID]

\* a seq_log without the UNIQUE(prefix, counter_value) constraint
KeyConflict_never(r) == FALSE

\* seq_log UNIQUE(prefix, counter_value)
KeyConflict(r) == \E x \in rows : x.prefix = r.prefix /\ x.counter = r.counter

\* seq_log message_id UNIQUE
MidConflict(r) == \E x \in rows : x.mid = r.mid

\* an insertion that overwrites the row holding the same (prefix, counter)
InsertAuditLog_upsert(r) ==
    IF KeyConflict(r)
    THEN [rows |-> {x \in rows : ~(x.prefix = r.prefix /\ x.counter = r.counter)}
                     \cup {Stored(r)},
          got |-> "conflict_key", err |-> FALSE]
    ELSE IF MidConflict(r) THEN [rows |-> rows, got |-> "conflict_mid", err |-> TRUE]
    ELSE [rows |-> rows \cup {Stored(r)}, got |-> "inserted", err |-> FALSE]

\* PostgresRepository.InsertAuditLog with the store up:
\* INSERT ... ON CONFLICT (prefix, counter_value) DO NOTHING RETURNING id.
\* The arbiter is the (prefix, counter_value) index alone: a conflict on it
\* inserts nothing and returns no row (sql.ErrNoRows, mapped to nil); a
\* conflict on message_id alone is a unique violation, returned as an error.
InsertAuditLog(r) ==
    IF KeyConflict(r) THEN [rows |-> rows, got |-> "conflict_key", err |-> FALSE]
    ELSE IF MidConflict(r) THEN [rows |-> rows, got |-> "conflict_mid", err |-> TRUE]
    ELSE [rows |-> rows \cup {Stored(r)}, got |-> "inserted", err |-> FALSE]

\* json.Unmarshal(msg.Body, &event) returns nil: the body is an event
Unmarshals(msg) == "body" \notin DOMAIN msg

\* ConsumeEvents: a delivery is taken and, when its body parses, the handler
\* runs on it (up: the audit store answers)
WorkerProcess(w, up) ==
    /\ work[w].pc = "idle"
    /\ up \/ faults < MaxFaults
    /\ faults' = IF up THEN faults ELSE faults + 1
    /\ \E e \in queue :
         LET res == IF ~Unmarshals(e)
                    THEN [rows |-> rows, got |-> "unparsable", err |-> TRUE]
                    ELSE IF up THEN InsertAuditLog(AuditLogOf(e))
                    ELSE [rows |-> rows, got |-> "unavailable", err |-> TRUE]
         IN /\ queue' = queue \ {e}
            /\ rows' = res.rows
            /\ deliv' = [deliv EXCEPT ![e.mid] =
                          IF @ < MaxDeliveries THEN @ + 1 ELSE @]
            /\ work' = [work EXCEPT ![w] =
                         [pc |-> "settle", ev |-> e, got |-> res.got, err |-> res.err]]
    /\ UNCHANGED <<seq, call, issued, lostAudit, nextMid, nextBatch, nadv, acked,
                   dlq, adm, resetVars, recon, confVars, errs, cancelled>>

\* a consumer that acknowledges whatever the handler returned
Settle_ackAlways(e, err) == "ack"

\* ConsumeEvents after the handler: "ack", or "requeue" / "dlq" by the retry
\* count of the event as parsed from the message body, plus one
Settle(e, err) ==
    IF ~err THEN "ack"
    ELSE IF e.retry + 1 >= RETRY_LIMIT THEN "dlq" ELSE "requeue"

\* a consumer that leaves an acknowledged message in the queue as well
WorkerSettle_keep(w) ==
    /\ work[w].pc = "settle"
    /\ LET e == work[w].ev
           how == IF work[w].got = "unparsable" THEN "dlq"
                  ELSE Settle(e, work[w].err)
       IN /\ acked' = IF how = "ack" THEN acked \cup {e} ELSE acked
          /\ dlq' = IF how = "dlq" THEN dlq \cup {e} ELSE dlq
          /\ queue' = IF how \in {"requeue", "ack"} THEN queue \cup {e} ELSE queue
    /\ work' = [work EXCEPT ![w] = [pc |-> "idle"]]
    /\ UNCHANGED <<seq, call, issued, lostAudit, nextMid, nextBatch, nadv, deliv,
                   faults, rows, adm, resetVars, recon, confVars, errs, cancelled>>

\* a body that does not parse handled like a failed insertion
Unparsable_retry(e, err) == Settle([retry |-> 0], err)

\* ConsumeEvents on a body that does not parse: msg.Nack(false, false)
Unparsable(e, err) == "dlq"

\* msg.Ack / msg.Nack: a requeued message goes back as it was published
WorkerSettle(w) ==
    /\ work[w].pc = "settle"
    /\ LET e == work[w].ev
           how == IF work[w].got = "unparsable" THEN Unparsable(e, work[w].err)
                  ELSE Settle(e, work[w].err)
       IN /\ acked' = IF how = "ack" THEN acked \cup {e} ELSE acked
          /\ dlq' = IF how = "dlq" THEN dlq \cup {e} ELSE dlq
          /\ queue' = IF how = "requeue" THEN queue \cup {e} ELSE queue
    /\ work' = [work EXCEPT ![w] = [pc |-> "idle"]]
    /\ UNCHANGED <<seq, call, issued, lostAudit, nextMid, nextBatch, nadv, deliv,
                   faults, rows, adm, resetVars, recon, confVars, errs, cancelled>>

\* the worker process dies or its channel closes before the ack: the broker
\* puts the unacknowledged delivery back in the queue
WorkerCrash(w) ==
    /\ work[w].pc = "settle"
    /\ faults < MaxFaults
    /\ faults' = faults + 1
    /\ queue' = queue \cup {work[w].ev}
    /\ work' = [work EXCEPT ![w] = [pc |-> "idle"]]
    /\ UNCHANGED <<seq, call, issued, lostAudit, nextMid, nextBatch, nadv, acked,
                   dlq, deliv, rows, adm, resetVars, recon, confVars, errs, cancelled>>

\* x-message-ttl with x-dead-letter-routing-key: a message that stayed in the
\* queue for 24 hours is dead-lettered by the broker
MessageExpire ==
    /\ \E e \in queue : queue' = queue \ {e} /\ dlq' = dlq \cup {e}
    /\ UNCHANGED <<seq, call, issued, lostAudit, nextMid, nextBatch, nadv, work,
                   acked, deliv, faults, rows, adm, resetVars, recon, confVars,
                   errs, cancelled>>

\* the safety check with "<" for "<=": a reset to the current value passes
UnsafeReset_strict(force, setTo, currentValue) == ~force /\ setTo < currentValue

\* ------------------------------------------------------------- reset
\* ResetCounter's safety check on the value it read
UnsafeReset(force, setTo, currentValue) == ~force /\ setTo <= currentValue

\* ResetCounter from the validation to the safety check (the request is valid)
ResetStart(a, p, setTo, force) ==
    /\ recon.pc = "serving"
    /\ adm[a].pc \in {"idle", "done"}
    /\ LET currentValue == GetCounter(p)
       IN IF UnsafeReset(force, setTo, currentValue)
          THEN adm' = [adm EXCEPT ![a] =
                        [pc |-> "done", status |-> "UnsafeReset", prefix |-> p,
                         setTo |-> setTo, force |-> force, cur |-> currentValue]]
          ELSE /\ nextReset < MaxResets
               /\ adm' = [adm EXCEPT ![a] =
                           [pc |-> "watch", prefix |-> p, setTo |-> setTo,
                            force |-> force, cur |-> currentValue]]
    /\ UNCHANGED <<seq, call, issued, lostAudit, nextMid, nextBatch, nadv,
                   brokerVars, rows, resetVars, recon, confVars, errs, cancelled>>

\* a replacement that reports as old value the one the safety check read
ResetWatch_checkRead(a) ==
    /\ adm[a].pc = "watch"
    /\ adm' = [adm EXCEPT ![a] =
                [pc |-> "exec", prefix |-> adm[a].prefix, setTo |-> adm[a].setTo,
                 force |-> adm[a].force, cur |-> adm[a].cur,
                 old |-> adm[a].cur, dirty |-> FALSE]]
    /\ UNCHANGED <<seq, call, issued, lostAudit, nextMid, nextBatch, nadv,
                   brokerVars, rows, resetVars, recon, confVars, errs, cancelled>>

\* a validation that lets an empty reason and an empty admin user through
ValidReset_setToOnly(setTo, reason, adminUser) == ~(setTo < 0)

\* ResetCounter's validation of the request
ValidReset(setTo, reason, adminUser) ==
    ~(setTo < 0) /\ reason # "" /\ adminUser # ""

\* ResetCounter on a request that fails the validation: the error reply
ResetInvalid(a, p, setTo, reason, adminUser, force) ==
    /\ recon.pc = "serving"
    /\ adm[a].pc \in {"idle", "done"}
    /\ adm' = [adm EXCEPT ![a] =
                [pc |-> "done", status |-> "InvalidRequest", prefix |-> p,
                 setTo |-> setTo, force |-> force, reason |-> reason,
                 adminUser |-> adminUser]]
    /\ UNCHANGED <<seq, call, issued, lostAudit, nextMid, nextBatch, nadv,
                   brokerVars, rows, resetVars, recon, confVars, errs, cancelled>>

\* ResetCounter from its entry to the safety check
ResetCounter(a, p, setTo, reason, adminUser, force) ==
    IF ValidReset(setTo, reason, adminUser)
    THEN ResetStart(a, p, setTo, force)
    ELSE ResetInvalid(a, p, setTo, reason, adminUser, force)

\* RedisRepository.ResetCounter: WATCH key, then GET inside the transaction
ResetWatch(a) ==
    /\ adm[a].pc = "watch"
    /\ adm' = [adm EXCEPT ![a] =
                [pc |-> "exec", prefix |-> adm[a].prefix, setTo |-> adm[a].setTo,
                 force |-> adm[a].force, cur |-> adm[a].cur,
                 old |-> GetCounter(adm[a].prefix), dirty |-> FALSE]]
    /\ UNCHANGED <<seq, call, issued, lostAudit, nextMid, nextBatch, nadv,
                   brokerVars, rows, resetVars, recon, confVars, errs, cancelled>>

\* a reset that records a refused replacement as if it had been done
ResetExec_recordRefused(a) ==
    /\ adm[a].pc = "exec"
    /\ LET p == adm[a].prefix
       IN /\ seq' = IF adm[a].dirty THEN seq ELSE [seq EXCEPT ![p] = adm[a].setTo]
          /\ nextReset' = nextReset + 1
          /\ adm' = [(IF adm[a].dirty THEN adm ELSE Touch(p)) EXCEPT ![a] =
                      [pc |-> "record", prefix |-> p, setTo |-> adm[a].setTo,
                       force |-> adm[a].force, cur |-> adm[a].cur,
                       old |-> adm[a].old, rid |-> nextReset']]
          /\ epoch' = IF adm[a].dirty THEN epoch ELSE [epoch EXCEPT ![p] = @ + 1]
          /\ start' = IF adm[a].dirty THEN start
                      ELSE [start EXCEPT ![p] = adm[a].setTo]
    /\ UNCHANGED <<call, issued, lostAudit, nextMid, nextBatch, nadv, brokerVars,
                   rows, resetLog, checkpoint, recon, confVars, errs, cancelled>>

\* ResetCounter when redisRepo.GetCounter returns an error: the error reply
ResetGetFail(a, p, setTo, force) ==
    /\ recon.pc = "serving"
    /\ adm[a].pc \in {"idle", "done"}
    /\ faults < MaxFaults
    /\ faults' = faults + 1
    /\ adm' = [adm EXCEPT ![a] =
                [pc |-> "done", status |-> "GetFailed", prefix |-> p,
                 setTo |-> setTo, force |-> force]]
    /\ UNCHANGED <<seq, call, issued, lostAudit, nextMid, nextBatch, nadv, queue,
                   work, acked, dlq, deliv, rows, resetVars, recon, confVars,
                   errs, cancelled>>

\* ResetCounter when redisRepo.ResetCounter returns an error of the connection
\* (applied: the store ran the transaction and the reply was lost): the error
\* reply
ResetExecFail(a, applied) ==
    /\ adm[a].pc \in {"watch", "exec"}
    /\ faults < MaxFaults
    /\ faults' = faults + 1
    /\ LET p == adm[a].prefix
           done == applied /\ adm[a].pc = "exec" /\ ~adm[a].dirty
       IN /\ seq' = IF done THEN [seq EXCEPT ![p] = adm[a].setTo] ELSE seq
          /\ epoch' = IF done THEN [epoch EXCEPT ![p] = @ + 1] ELSE epoch
          /\ start' = IF done THEN [start EXCEPT ![p] = adm[a].setTo] ELSE start
          /\ adm' = [(IF done THEN Touch(p) ELSE adm) EXCEPT ![a] =
                      [pc |-> "done", status |-> "ResetFailed", prefix |-> p,
                       setTo |-> adm[a].setTo, force |-> adm[a].force,
                       cur |-> adm[a].cur]]
    /\ UNCHANGED <<call, issued, lostAudit, nextMid, nextBatch, nadv, queue, work,
                   acked, dlq, deliv, rows, resetLog, checkpoint, nextReset,
                   recon, confVars, errs, cancelled>>

\* a replacement done as GET then SET, without the WATCH
ResetExec_noWatch(a) ==
    /\ adm[a].pc = "exec"
    /\ LET p == adm[a].prefix
       IN /\ seq' = [seq EXCEPT ![p] = adm[a].setTo]
          /\ nextReset' = nextReset + 1
          /\ adm' = [Touch(p) EXCEPT ![a] =
                      [pc |-> "record", prefix |-> p, setTo |-> adm[a].setTo,
                       force |-> adm[a].force, cur |-> adm[a].cur,
                       old |-> adm[a].old, rid |-> nextReset']]
          /\ epoch' = [epoch EXCEPT ![p] = @ + 1]
          /\ start' = [start EXCEPT ![p] = adm[a].setTo]
    /\ UNCHANGED <<call, issued, lostAudit, nextMid, nextBatch, nadv, brokerVars,
                   rows, resetLog, checkpoint, recon, confVars, errs, cancelled>>

\* RedisRepository.ResetCounter: MULTI / SET / EXEC; EXEC is refused when the
\* watched key was written since the WATCH. Then the reset id is minted.
ResetExec(a) ==
    /\ adm[a].pc = "exec"
    /\ LET p == adm[a].prefix
       IN IF adm[a].dirty
          THEN /\ adm' = [adm EXCEPT ![a] =
                           [pc |-> "done", status |-> "ResetFailed", prefix |-> p,
                            setTo |-> adm[a].setTo, force |-> adm[a].force,
                            cur |-> adm[a].cur]]
               /\ UNCHANGED <<seq, nextReset, epoch, start>>
          ELSE /\ seq' = [seq EXCEPT ![p] = adm[a].setTo]
               /\ nextReset' = nextReset + 1
               /\ adm' = [Touch(p) EXCEPT ![a] =
                           [pc |-> "record", prefix |-> p, setTo |-> adm[a].setTo,
                            force |-> adm[a].force, cur |-> adm[a].cur,
                            old |-> adm[a].old, rid |-> nextReset']]
               /\ epoch' = [epoch EXCEPT ![p] = @ + 1]
               /\ start' = [start EXCEPT ![p] = adm[a].setTo]
    /\ UNCHANGED <<call, issued, lostAudit, nextMid, nextBatch, nadv, brokerVars,
                   rows, resetLog, checkpoint, recon, confVars, errs, cancelled>>

\* a reset that gives up, with an error, when seq_reset_log refuses the row
ResetRecord_stopOnLogError(a, logged, synced) ==
    /\ adm[a].pc = "record"
    /\ resetLog' = IF logged
                   THEN resetLog \cup {[prefix |-> adm[a].prefix,
                                        old |-> adm[a].old, new |-> adm[a].setTo,
                                        admin |-> a, rid |-> adm[a].rid]}
                   ELSE resetLog
    /\ checkpoint' = IF logged /\ synced
                     THEN [checkpoint EXCEPT ![adm[a].prefix] =
                            [last |-> adm[a].setTo, by |-> a]]
                     ELSE checkpoint
    /\ adm' = [adm EXCEPT ![a] =
                [pc |-> "done", status |-> IF logged THEN "ok" ELSE "LogFailed",
                 prefix |-> adm[a].prefix, setTo |-> adm[a].setTo,
                 force |-> adm[a].force, old |-> adm[a].old, rid |-> adm[a].rid]]
    /\ UNCHANGED <<seq, call, issued, lostAudit, nextMid, nextBatch, nadv,
                   brokerVars, rows, nextReset, epoch, start, recon, confVars,
                   errs, cancelled>>

\* ResetCounter after the replacement: InsertResetLog, UpdateCheckpoint (each
\* may fail and is then only logged) and the reply
ResetRecord(a, logged, synced) ==
    /\ adm[a].pc = "record"
    /\ resetLog' = IF logged
                   THEN resetLog \cup {[prefix |-> adm[a].prefix,
                                        old |-> adm[a].old, new |-> adm[a].setTo,
                                        admin |-> a, rid |-> adm[a].rid]}
                   ELSE resetLog
    /\ checkpoint' = IF synced
                     THEN [checkpoint EXCEPT ![adm[a].prefix] =
                            [last |-> adm[a].setTo, by |-> a]]
                     ELSE checkpoint
    /\ adm' = [adm EXCEPT ![a] =
                [pc |-> "done", status |-> "ok", prefix |-> adm[a].prefix,
                 setTo |-> adm[a].setTo, force |-> adm[a].force,
                 old |-> adm[a].old, rid |-> adm[a].rid]]
    /\ UNCHANGED <<seq, call, issued, lostAudit, nextMid, nextBatch, nadv,
                   brokerVars, rows, nextReset, epoch, start, recon, confVars, errs, cancelled>>

\* ----------------------------------------------------------- shutdown
\* main: the connections in the order they are opened, each followed by its
\* deferred Close
Opened == <<"redis", "postgres", "rabbitmq">>

\* a request of the entry is in progress
InFlight(via) == \E c \in Callers : call[c].pc # "idle" /\ call[c].req.via = via

\* main: the signal arrives and restServer.Shutdown(shutdownCtx) is called
Signal ==
    /\ recon.pc = "serving"
    /\ recon' = [pc |-> "rest_shutdown", open |-> Opened, closed |-> <<>>,
                 late |-> FALSE]
    /\ UNCHANGED <<seq, call, issued, lostAudit, nextMid, nextBatch, nadv,
                   brokerVars, rows, adm, resetVars, confVars, errs, cancelled>>

\* restServer.Shutdown returns: no REST request is in progress any more, or
\* (expired) the 30 seconds of shutdownCtx are over with requests still in
\* progress; grpcServer.GracefulStop is called
RestShutdownReturns(expired) ==
    /\ recon.pc = "rest_shutdown"
    /\ expired <=> InFlight("rest")
    /\ recon' = [recon EXCEPT !.pc = "grpc_stop", !.late = expired]
    /\ UNCHANGED <<seq, call, issued, lostAudit, nextMid, nextBatch, nadv,
                   brokerVars, rows, adm, resetVars, confVars, errs, cancelled>>

\* grpcServer.GracefulStop returns, which it does when no RPC is in progress;
\* it takes no deadline
GracefulStopReturns ==
    /\ recon.pc = "grpc_stop"
    /\ ~InFlight("grpc")
    /\ recon' = [recon EXCEPT !.pc = "closing"]
    /\ UNCHANGED <<seq, call, issued, lostAudit, nextMid, nextBatch, nadv,
                   brokerVars, rows, adm, resetVars, confVars, errs, cancelled>>

\* main returns: the deferred Close calls run, last deferred first
DeferredClose ==
    /\ recon.pc = "closing"
    /\ LET n == Len(recon.open)
       IN recon' = [recon EXCEPT !.open = SubSeq(recon.open, 1, n - 1),
                                 !.closed = Append(recon.closed, recon.open[n]),
                                 !.pc = IF n = 1 THEN "exited" ELSE "closing"]
    /\ UNCHANGED <<seq, call, issued, lostAudit, nextMid, nextBatch, nadv,
                   brokerVars, rows, adm, resetVars, confVars, errs, cancelled>>

\* -------------------------------------------------------- reconciler
\* SELECT COUNT(*) for SELECT MAX(counter_value)
GetMaxCounter_count(p) == Cardinality({x \in rows : x.prefix = p})

\* PostgresRepository.GetMaxCounter: MAX(counter_value) of the prefix's rows,
\* 0 when there are none
GetMaxCounter(p) ==
    LET cs == {r.counter : r \in {x \in rows : x.prefix = p}}
    IN IF cs = {} THEN 0 ELSE CHOOSE c \in cs : \A d \in cs : d <= c

\* ------------------------------------------------------------ status
\* GetStatus's reply: the counter, the counter after it, and the audit
\* store's maximum
CounterStatus(p, currentCounter) ==
    [prefix |-> p, current |-> currentCounter, next |-> currentCounter + 1,
     lastAudit |-> GetMaxCounter(p)]

\* a status that reads the counter with INCRBY 0, which creates the key
GetStatus_create(c, p) ==
    /\ Free(c)
    /\ seq' = [seq EXCEPT ![p] = GetCounter(p)]
    /\ call' = [call EXCEPT ![c] =
                 [pc |-> "idle", status |-> CounterStatus(p, GetCounter(p))]]
    /\ UNCHANGED <<issued, lostAudit, nextMid, nextBatch, nadv, brokerVars, rows,
                   adm, resetVars, recon, confVars, errs, cancelled>>

\* SequentialIDService.GetStatus: GetCounter, GetMaxCounter, the three pings
\* (the broker's declares and deletes a queue of its own), and the reply
GetStatus(c, p) ==
    /\ Free(c)
    /\ call' = [call EXCEPT ![c] =
                 [pc |-> "idle", status |-> CounterStatus(p, GetCounter(p))]]
    /\ UNCHANGED <<seq, issued, lostAudit, nextMid, nextBatch, nadv, brokerVars,
                   rows, adm, resetVars, recon, confVars, errs, cancelled>>

\* SyncCountersOnStartup: GetAllPrefixConfigs
SyncStart ==
    /\ recon.pc = "boot"
    /\ recon' = [pc |-> "max", todo |-> Configured, found |-> recon.found]
    /\ UNCHANGED <<seq, call, issued, lostAudit, nextMid, nextBatch, nadv,
                   brokerVars, rows, adm, resetVars,
                   confVars, errs, cancelled>>

\* SyncCountersOnStartup, the loop: the next prefix's maxCounter, or the end
SyncGetMax ==
    /\ recon.pc = "max"
    /\ IF recon.todo = {}
       THEN recon' = [recon EXCEPT !.pc = "serving"]
       ELSE \E p \in recon.todo :
              recon' = [pc |-> "cur", todo |-> recon.todo \ {p}, prefix |-> p,
                        max |-> GetMaxCounter(p), found |-> recon.found]
    /\ UNCHANGED <<seq, call, issued, lostAudit, nextMid, nextBatch, nadv,
                   brokerVars, rows, adm, resetVars,
                   confVars, errs, cancelled>>

\* SyncCountersOnStartup: currentRedisCounter
SyncGetCounter ==
    /\ recon.pc = "cur"
    /\ recon' = [recon EXCEPT !.pc = "set"] @@ [cur |-> GetCounter(recon.prefix)]
    /\ UNCHANGED <<seq, call, issued, lostAudit, nextMid, nextBatch, nadv,
                   brokerVars, rows, adm, resetVars,
                   confVars, errs, cancelled>>

\* a reconciler that writes the audit maximum without comparing
SyncSetCounter_always ==
    /\ recon.pc = "set"
    /\ seq' = [seq EXCEPT ![recon.prefix] = recon.max]
    /\ start' = [start EXCEPT ![recon.prefix] = recon.max]
    /\ adm' = Touch(recon.prefix)
    /\ recon' = [recon EXCEPT !.pc = "ckpt"]
    /\ UNCHANGED <<call, issued, lostAudit, nextMid, nextBatch, nadv, brokerVars,
                   rows, resetLog, checkpoint, nextReset, epoch,
                   confVars, errs, cancelled>>

\* SyncCountersOnStartup: SetCounter when maxCounter > currentRedisCounter
SyncSetCounter ==
    /\ recon.pc = "set"
    /\ IF recon.max > recon.cur
       THEN /\ seq' = [seq EXCEPT ![recon.prefix] = recon.max]
            /\ start' = [start EXCEPT ![recon.prefix] = recon.max]
            /\ adm' = Touch(recon.prefix)
       ELSE UNCHANGED <<seq, start, adm>>
    /\ recon' = [recon EXCEPT !.pc = "ckpt"]
    /\ UNCHANGED <<call, issued, lostAudit, nextMid, nextBatch, nadv, brokerVars,
                   rows, resetLog, checkpoint, nextReset, epoch,
                   confVars, errs, cancelled>>

\* a reconciler that moves the checkpoint only when it moved the counter
SyncCheckpoint_onChange(synced) ==
    /\ recon.pc = "ckpt"
    /\ checkpoint' = IF synced /\ recon.max > recon.cur
                     THEN [checkpoint EXCEPT ![recon.prefix] =
                            [last |-> recon.max, by |-> "system"]]
                     ELSE checkpoint
    /\ recon' = [pc |-> "max", todo |-> recon.todo, found |-> recon.found,
                 last |-> [prefix |-> recon.prefix, max |-> recon.max,
                           cur |-> recon.cur]]
    /\ UNCHANGED <<seq, call, issued, lostAudit, nextMid, nextBatch, nadv,
                   brokerVars, rows, adm, resetLog, nextReset, epoch, start,
                   confVars, errs, cancelled>>

\* SyncCountersOnStartup: UpdateCheckpoint (a failure is only logged), then
\* the next prefix
SyncCheckpoint(synced) ==
    /\ recon.pc = "ckpt"
    /\ checkpoint' = IF synced
                     THEN [checkpoint EXCEPT ![recon.prefix] =
                            [last |-> recon.max, by |-> "system"]]
                     ELSE checkpoint
    /\ recon' = [pc |-> "max", todo |-> recon.todo, found |-> recon.found,
                 last |-> [prefix |-> recon.prefix, max |-> recon.max,
                           cur |-> recon.cur]]
    /\ UNCHANGED <<seq, call, issued, lostAudit, nextMid, nextBatch, nadv,
                   brokerVars, rows, adm, resetLog, nextReset, epoch, start,
                   confVars, errs, cancelled>>

\* ----------------------------------------------------------- bookkeeping
NoCheckpoint == [last |-> Absent, by |-> "none"]

Init ==
    /\ seq = [p \in Prefixes |-> Absent]
    /\ call = [c \in Callers |-> IdleCall]
    /\ issued = {}
    /\ lostAudit = {}
    /\ nextMid = 0
    /\ nextBatch = 0
    /\ nadv = 0
    /\ epoch = [p \in Prefixes |-> 0]
    /\ start = [p \in Prefixes |-> 0]
    /\ queue = {}
    /\ work = [w \in Workers |-> [pc |-> "idle"]]
    /\ acked = {}
    /\ dlq = {}
    /\ deliv = [m \in Mids |-> 0]
    /\ faults = 0
    /\ rows = {}
    /\ adm = [a \in AdminConns |-> [pc |-> "idle"]]
    /\ resetLog = {}
    /\ checkpoint = [p \in Prefixes |-> NoCheckpoint]
    /\ nextReset = 0
    /\ recon = Serving
    /\ config = SeedConfig
    /\ year = SeedYear
    /\ errs = {}
    /\ cancelled = {}

Counts == 1..MaxCount

\* requests of the callers C, each publish ending as one of oks
IssueNext(C, oks) ==
    \/ \E c \in C, p \in Prefixes : GetNextIncr(c, p)
    \/ \E c \in C, ok \in oks : GetNextPublish(c, ok)
    \/ \E c \in C, p \in Prefixes, k \in Counts : GetNextBatchIncr(c, p, k)
    \/ \E c \in C, ok \in oks : GetNextBatchPublish(c, ok)

\* the steps of a reset after its first, each write to the audit store ending
\* as one of oks
ResetSteps(oks) ==
    \/ \E a \in AdminConns : ResetWatch(a)
    \/ \E a \in AdminConns : ResetExec(a)
    \/ \E a \in AdminConns, logged \in oks, synced \in oks : ResetRecord(a, logged, synced)

\* the worker processes
WorkerNext ==
    \/ \E w \in Workers, up \in BOOLEAN : WorkerProcess(w, up)
    \/ \E w \in Workers : WorkerSettle(w)
    \/ \E w \in Workers : WorkerCrash(w)

\* The API process in service: issuance and administrative resets against
\* the counter store and the broker.
Next ==
    \/ IssueNext(Callers, BOOLEAN)
    \/ \E a \in Admins, p \in Configured, v \in 0..MaxSet, f \in BOOLEAN :
         ResetStart(a, p, v, f)
    \/ ResetSteps(BOOLEAN)

Spec == Init /\ [][Next]_vars

\* The audit pipeline end to end: one caller whose publishes the broker takes,
\* the workers, and forced resets to 0, after which counters are issued again.
NextAudit ==
    \/ \E p \in Prefixes : GetNextIncr("c1", p)
    \/ GetNextPublish("c1", TRUE)
    \/ WorkerNext
    \/ \E a \in Admins, p \in Configured : ResetStart(a, p, 0, TRUE)
    \/ ResetSteps({TRUE})

SpecAudit == Init /\ [][NextAudit]_vars

\* The reset protocol beside one caller's issuance, the audit store taking
\* every write
NextReset ==
    \/ IssueNext({"c1"}, {TRUE})
    \/ \E a \in Admins, p \in Configured, v \in 0..MaxSet, f \in BOOLEAN :
         ResetStart(a, p, v, f)
    \/ ResetSteps({TRUE})

SpecReset == Init /\ [][NextReset]_vars

\* clock readings: on the second, with nanoseconds, and just below a second
Nows == {Time(1, 0), Time(1, 123456789), Time(1, 999999900)}
ClientIDs == {"k1"}
GeneratedBys == {"", "u1"}
CorrelationIDs == {"x1"}

\* One caller's requests through both entries, with the broker and the audit
\* store answering, and a worker
NextCopy ==
    \/ \E p \in Prefixes, k \in ClientIDs, g \in GeneratedBys,
          x \in CorrelationIDs, t \in Nows :
         RestGetNext("c1", p, k, g, x, t)
    \/ \E p \in Prefixes, k \in ClientIDs, x \in CorrelationIDs, t \in Nows :
         GrpcGetNext("c1", p, k, x, t)
    \/ GetNextPublish("c1", TRUE)
    \/ WorkerProcess("w1", TRUE)
    \/ WorkerSettle("w1")

SpecCopy == Init /\ [][NextCopy]_vars

\* The API process from service to its exit: a REST caller and a gRPC caller,
\* the broker taking every publish, the signal and main's shutdown sequence
NextShutdown ==
    \/ \E p \in Prefixes : RestGetNext("c1", p, "k1", "u1", "", Time(1, 0))
    \/ \E p \in Prefixes : GrpcGetNext("c2", p, "k1", "x1", Time(1, 0))
    \/ \E c \in Callers : GetNextPublish(c, TRUE)
    \/ Signal
    \/ \E expired \in BOOLEAN : RestShutdownReturns(expired)
    \/ GracefulStopReturns
    \/ DeferredClose

SpecShutdown == Init /\ [][NextShutdown]_vars

\* One caller's issuance over a connection to the broker that may break, the
\* broker's queue with its TTL, and a worker whose channel may close
NextPublish ==
    \/ \E p \in Prefixes : GetNextIncr("c1", p)
    \/ \E ok \in BOOLEAN : GetNextPublish("c1", ok)
    \/ GetNextPublishLost("c1")
    \/ WorkerProcess("w1", TRUE)
    \/ WorkerSettle("w1")
    \/ WorkerCrash("w1")
    \/ MessageExpire

SpecPublish == Init /\ [][NextPublish]_vars

\* correlation ids a caller passes, or none
PassedCorrelationIDs == {"", "x1", "x2"}

\* One caller's single and batch requests with and without a correlation id,
\* with the broker and the audit store answering, and a worker
NextCorrelation ==
    \/ \E p \in Prefixes, x \in PassedCorrelationIDs :
         RestGetNext("c1", p, "k1", "u1", x, Time(1, 0))
    \/ \E p \in Prefixes, x \in PassedCorrelationIDs :
         GrpcGetNext("c1", p, "k1", x, Time(1, 0))
    \/ \E p \in Prefixes, k \in Counts, x \in PassedCorrelationIDs :
         RestGetNextBatch("c1", p, k, "k1", "u1", x, Time(1, 0))
    \/ GetNextPublish("c1", TRUE)
    \/ GetNextBatchPublish("c1", TRUE)
    \/ WorkerProcess("w1", TRUE)
    \/ WorkerSettle("w1")

SpecCorrelation == Init /\ [][NextCorrelation]_vars

\* Status requests of one caller beside another's issuance and the workers
NextStatus ==
    \/ \E p \in Prefixes : GetNextIncr("c1", p)
    \/ \E ok \in BOOLEAN : GetNextPublish("c1", ok)
    \/ \E p \in Prefixes : GetStatus("c2", p)
    \/ \E up \in BOOLEAN : WorkerProcess("w1", up)
    \/ WorkerSettle("w1")

SpecStatus == Init /\ [][NextStatus]_vars

\* The counter engine under two resets in flight on the same key and one
\* caller's issuance, the audit store taking every write
NextEngine ==
    \/ IssueNext({"c1"}, {TRUE})
    \/ \E a \in AdminConns, p \in Configured, v \in 0..MaxSet, f \in BOOLEAN :
         ResetStart(a, p, v, f)
    \/ ResetSteps({TRUE})

SpecEngine == Init /\ [][NextEngine]_vars

\* Issuance by callers that may go away once their request has advanced, the
\* broker taking or refusing each publish
NextCancel ==
    \/ IssueNext(Callers, BOOLEAN)
    \/ \E c \in Callers : Cancel(c)

SpecCancel == Init /\ [][NextCancel]_vars

\* The same with the request goroutine running on: a request that has
\* advanced takes its next publish step
SpecCancelFair ==
    /\ SpecCancel
    /\ \A c \in Callers :
         WF_vars(\E ok \in BOOLEAN : GetNextPublish(c, ok) \/ GetNextBatchPublish(c, ok))

\* counts a batch request may carry besides those of Counts
BadCounts == {0 - 1, 0, MAX_BATCH + 1}

\* One caller's single and batch requests, the batch count being any of
\* Counts and BadCounts, the broker taking or refusing each publish
NextBatch ==
    \/ \E p \in Prefixes : GetNextIncr("c1", p)
    \/ \E ok \in BOOLEAN : GetNextPublish("c1", ok)
    \/ \E p \in Prefixes, k \in Counts \cup BadCounts : GetNextBatchIncr("c1", p, k)
    \/ \E ok \in BOOLEAN : GetNextBatchPublish("c1", ok)
    \/ \E p \in Prefixes, k \in Counts \cup BadCounts : GetNextBatchInvalid("c1", p, k)

SpecBatch == Init /\ [][NextBatch]_vars

\* One caller's requests against a counter store that fails up to MaxFaults
\* times
NextOutage ==
    \/ IssueNext({"c1"}, {TRUE})
    \/ \E p \in Prefixes, applied \in BOOLEAN : GetNextIncrFail("c1", p, applied)
    \/ \E p \in Prefixes, k \in Counts, applied \in BOOLEAN :
         GetNextBatchIncrFail("c1", p, k, applied)

SpecOutage == Init /\ [][NextOutage]_vars

\* values a reset request may carry in set_to, reason and admin_user
SetTos == {0 - 1} \cup 0..MaxSet
Reasons == {"", "fix"}
AdminUsers == {"", "a1"}

\* The reset protocol on any request, beside one caller's single requests,
\* each write to the audit store succeeding or failing and the counter store
\* failing up to MaxFaults times
NextResetErr ==
    \/ \E p \in Prefixes : GetNextIncr("c1", p)
    \/ GetNextPublish("c1", TRUE)
    \/ \E a \in Admins, p \in Configured, v \in SetTos, r \in Reasons,
          u \in AdminUsers, f \in BOOLEAN : ResetCounter(a, p, v, r, u, f)
    \/ \E a \in Admins, p \in Configured, v \in 0..MaxSet, f \in BOOLEAN :
         ResetGetFail(a, p, v, f)
    \/ \E a \in Admins, applied \in BOOLEAN : ResetExecFail(a, applied)
    \/ ResetSteps(BOOLEAN)

SpecResetErr == Init /\ [][NextResetErr]_vars

\* seq_log rows of the process that crashed
OldRow(c) == [id |-> c, prefix |-> "SG", counter |-> c, mid |-> 0 - c,
              batch |-> NoBatch, full |-> formatID(SeedConfig["SG"], c, SeedYear),
              clientID |-> PlainRequest.clientID,
              generatedBy |-> PlainRequest.generatedBy, at |-> PlainRequest.at,
              correlationID |-> PlainRequest.correlationID]

\* The API process started again after a crash: the audit store holds rows of
\* earlier issuances, the counter store has lost the key or holds any value
InitRecovery ==
    /\ seq \in [Prefixes -> {Absent} \cup 0..MaxOld]
    /\ seq["PO"] = Absent
    /\ call = [c \in Callers |-> IdleCall]
    /\ issued = {}
    /\ lostAudit = {}
    /\ nextMid = 0
    /\ nextBatch = 0
    /\ nadv = 0
    /\ epoch = [p \in Prefixes |-> 0]
    /\ start = [p \in Prefixes |-> IF seq[p] = Absent THEN 0 ELSE seq[p]]
    /\ queue = {}
    /\ work = [w \in Workers |-> [pc |-> "idle"]]
    /\ acked = {}
    /\ dlq = {}
    /\ deliv = [m \in Mids |-> 0]
    /\ faults = 0
    /\ rows \in {{OldRow(c) : c \in S} : S \in SUBSET (1..MaxOld)}
    /\ adm = [a \in AdminConns |-> [pc |-> "idle"]]
    /\ resetLog = {}
    /\ checkpoint = [p \in Prefixes |-> NoCheckpoint]
    /\ nextReset = 0
    /\ recon = [pc |-> "boot", found |-> seq]
    /\ config = SeedConfig
    /\ year = SeedYear
    /\ errs = {}
    /\ cancelled = {}

\* startup reconciliation, then issuance
NextRecovery ==
    \/ SyncStart
    \/ SyncGetMax
    \/ SyncGetCounter
    \/ SyncSetCounter
    \/ \E synced \in BOOLEAN : SyncCheckpoint(synced)
    \/ IssueNext(Callers, BOOLEAN)

SpecRecovery == InitRecovery /\ [][NextRecovery]_vars

\* seq_checkpoint as a start may find it: no row, the row the migration
\* seeds, or the row an earlier reset left
PriorCheckpoints ==
    {NoCheckpoint, [last |-> 0, by |-> "system"]}
      \cup {[last |-> v, by |-> a] : v \in 0..MaxSet, a \in Admins}

\* a start of the API process that finds any counter store, audit store and
\* checkpoints; both stores answer
InitRecon ==
    /\ seq \in [Prefixes -> {Absent} \cup 0..MaxOld]
    /\ seq["PO"] = Absent
    /\ call = [c \in Callers |-> IdleCall]
    /\ issued = {}
    /\ lostAudit = {}
    /\ nextMid = 0
    /\ nextBatch = 0
    /\ nadv = 0
    /\ epoch = [p \in Prefixes |-> 0]
    /\ start = [p \in Prefixes |-> IF seq[p] = Absent THEN 0 ELSE seq[p]]
    /\ queue = {}
    /\ work = [w \in Workers |-> [pc |-> "idle"]]
    /\ acked = {}
    /\ dlq = {}
    /\ deliv = [m \in Mids |-> 0]
    /\ faults = 0
    /\ rows \in {{OldRow(c) : c \in S} : S \in SUBSET (1..MaxOld)}
    /\ adm = [a \in AdminConns |-> [pc |-> "idle"]]
    /\ resetLog = {}
    /\ checkpoint \in [Prefixes -> PriorCheckpoints]
    /\ checkpoint["PO"] = NoCheckpoint
    /\ nextReset = 0
    /\ recon = [pc |-> "boot", found |-> seq]
    /\ config = SeedConfig
    /\ year = SeedYear
    /\ errs = {}
    /\ cancelled = {}

\* startup reconciliation with both stores answering, then one caller's
\* issuance
NextRecon ==
    \/ SyncStart
    \/ SyncGetMax
    \/ SyncGetCounter
    \/ SyncSetCounter
    \/ SyncCheckpoint(TRUE)
    \/ \E p \in Prefixes : GetNextIncr("c1", p)
    \/ GetNextPublish("c1", TRUE)

SpecRecon == InitRecon /\ [][NextRecon]_vars

\* a start of the API process on a counter store that lost the key or kept a
\* value, and an audit store with any of the first rows
InitRows ==
    /\ seq \in [Prefixes -> {Absent, 1}]
    /\ seq["PO"] = Absent
    /\ call = [c \in Callers |-> IdleCall]
    /\ issued = {}
    /\ lostAudit = {}
    /\ nextMid = 0
    /\ nextBatch = 0
    /\ nadv = 0
    /\ epoch = [p \in Prefixes |-> 0]
    /\ start = [p \in Prefixes |-> IF seq[p] = Absent THEN 0 ELSE seq[p]]
    /\ queue = {}
    /\ work = [w \in Workers |-> [pc |-> "idle"]]
    /\ acked = {}
    /\ dlq = {}
    /\ deliv = [m \in Mids |-> 0]
    /\ faults = 0
    /\ rows \in {{OldRow(c) : c \in S} : S \in SUBSET (1..MaxQueue)}
    /\ adm = [a \in AdminConns |-> [pc |-> "idle"]]
    /\ resetLog = {}
    /\ checkpoint = [p \in Prefixes |-> NoCheckpoint]
    /\ nextReset = 0
    /\ recon = [pc |-> "boot", found |-> seq]
    /\ config = SeedConfig
    /\ year = SeedYear
    /\ errs = {}
    /\ cancelled = {}

\* Every operation that reaches the audit store: the reconciler at the start,
\* then one caller's issuance and status requests, forced resets to 0 and a
\* worker
NextRows ==
    \/ SyncStart
    \/ SyncGetMax
    \/ SyncGetCounter
    \/ SyncSetCounter
    \/ SyncCheckpoint(TRUE)
    \/ IssueNext({"c1"}, {TRUE})
    \/ \E p \in Prefixes : GetStatus("c1", p)
    \/ \E a \in Admins, p \in Configured : ResetStart(a, p, 0, TRUE)
    \/ ResetSteps({TRUE})
    \/ WorkerProcess("w1", TRUE)
    \/ WorkerSettle("w1")

SpecRows == InitRows /\ [][NextRows]_vars

\* models.Event as json.Unmarshal gives it to the handler, from whichever
\* publisher: retry_count is what the body says
EventSpace == {[mid |-> m, prefix |-> p, counter |-> n, batch |-> NoBatch,
                retry |-> r, full |-> formatID(SeedConfig[p], n, SeedYear),
                clientID |-> PlainRequest.clientID,
                generatedBy |-> PlainRequest.generatedBy,
                at |-> PlainRequest.at,
                correlationID |-> PlainRequest.correlationID] :
                  m \in 1..MaxWire, p \in Configured, n \in 1..MaxWire,
                  r \in {0, RETRY_LIMIT - 1}}

\* The worker binary alone, started on a queue that already holds messages
InitWorker ==
    /\ seq = [p \in Prefixes |-> Absent]
    /\ call = [c \in Callers |-> IdleCall]
    /\ issued = {}
    /\ lostAudit = {}
    /\ nextMid = 0
    /\ nextBatch = 0
    /\ nadv = 0
    /\ epoch = [p \in Prefixes |-> 0]
    /\ start = [p \in Prefixes |-> 0]
    /\ queue \in {q \in SUBSET EventSpace : Cardinality(q) <= MaxQueue}
    /\ work = [w \in Workers |-> [pc |-> "idle"]]
    /\ acked = {}
    /\ dlq = {}
    /\ deliv = [m \in Mids |-> 0]
    /\ faults = 0
    /\ rows = {}
    /\ adm = [a \in AdminConns |-> [pc |-> "idle"]]
    /\ resetLog = {}
    /\ checkpoint = [p \in Prefixes |-> NoCheckpoint]
    /\ nextReset = 0
    /\ recon = Serving
    /\ config = SeedConfig
    /\ year = SeedYear
    /\ errs = {}
    /\ cancelled = {}

SpecWorker == InitWorker /\ [][WorkerNext]_vars

\* messages whose body json.Unmarshal refuses
Garbage == [mid : 1..MaxWire, body : {"not json"}]

\* The worker binary and the broker's queue, started on a queue that holds
\* events and bodies that do not parse, each under its own message id, over
\* any length of time
InitBroker ==
    /\ seq = [p \in Prefixes |-> Absent]
    /\ call = [c \in Callers |-> IdleCall]
    /\ issued = {}
    /\ lostAudit = {}
    /\ nextMid = 0
    /\ nextBatch = 0
    /\ nadv = 0
    /\ epoch = [p \in Prefixes |-> 0]
    /\ start = [p \in Prefixes |-> 0]
    /\ queue \in {q \in SUBSET (EventSpace \cup Garbage) : Cardinality(q) <= MaxQueue}
    /\ \A m1, m2 \in queue : m1 # m2 => m1.mid # m2.mid
    /\ work = [w \in Workers |-> [pc |-> "idle"]]
    /\ acked = {}
    /\ dlq = {}
    /\ deliv = [m \in Mids |-> 0]
    /\ faults = 0
    /\ rows = {}
    /\ adm = [a \in AdminConns |-> [pc |-> "idle"]]
    /\ resetLog = {}
    /\ checkpoint = [p \in Prefixes |-> NoCheckpoint]
    /\ nextReset = 0
    /\ recon = Serving
    /\ config = SeedConfig
    /\ year = SeedYear
    /\ errs = {}
    /\ cancelled = {}

NextBroker ==
    \/ WorkerNext
    \/ MessageExpire

SpecBroker == InitBroker /\ [][NextBroker]_vars

\* The same with the consumers' scheduling: a worker with a message to take
\* and an audit store that answers takes it, and a worker that holds a
\* delivery settles it
SpecAuditFair ==
    /\ SpecAudit
    /\ WF_vars(\E w \in Workers : WorkerProcess(w, TRUE))
    /\ WF_vars(\E w \in Workers : WorkerSettle(w))

\* format templates an administrator can store in seq_config (the check
\* constraint only asks for a '%'): the five seeded ones, 'PFX%06d', '%s-%d'
\* and 'N%d'
FormatTemplates ==
    { <<VerbS, VerbD(6)>>,
      <<Lit("INV"), VerbD(0), Lit("-"), VerbD(4)>>,
      <<VerbS, VerbD(8)>>,
      <<Lit("SO"), VerbD(6)>>,
      <<Lit("QUO"), VerbD(6)>>,
      <<Lit("PFX"), VerbD(6)>>,
      <<VerbS, Lit("-"), VerbD(0)>>,
      <<Lit("N"), VerbD(0)>> }

\* padding_length values of the seeded rows
PaddingLengths == {4, 6, 8}

\* the years the clock may show
Years == {2025, 2026}

\* values the counter key may hold when the service starts
StartCounters == {Absent, 0, 42}

\* The issuing path on a prefix whose configuration row is any of the above
InitFormat ==
    /\ seq \in [Prefixes -> StartCounters]
    /\ call = [c \in Callers |-> IdleCall]
    /\ issued = {}
    /\ lostAudit = {}
    /\ nextMid = 0
    /\ nextBatch = 0
    /\ nadv = 0
    /\ epoch = [p \in Prefixes |-> 0]
    /\ start = [p \in Prefixes |-> IF seq[p] = Absent THEN 0 ELSE seq[p]]
    /\ queue = {}
    /\ work = [w \in Workers |-> [pc |-> "idle"]]
    /\ acked = {}
    /\ dlq = {}
    /\ deliv = [m \in Mids |-> 0]
    /\ faults = 0
    /\ rows = {}
    /\ adm = [a \in AdminConns |-> [pc |-> "idle"]]
    /\ resetLog = {}
    /\ checkpoint = [p \in Prefixes |-> NoCheckpoint]
    /\ nextReset = 0
    /\ recon = Serving
    /\ config \in [Configured -> {[prefix |-> p, padding |-> n, template |-> t] :
                                     p \in Configured, n \in PaddingLengths,
                                     t \in FormatTemplates}]
    /\ \A p \in Configured : config[p].prefix = p
    /\ year \in Years
    /\ errs = {}
    /\ cancelled = {}

\* requests of one caller on any prefix, with or without configuration row
NextFormat ==
    \/ IssueNext({"c1"}, {TRUE})
    \/ \E p \in Prefixes : GetNextNotConfigured("c1", p)
    \/ \E p \in Prefixes, k \in Counts : GetNextBatchNotConfigured("c1", p, k)

SpecFormat == InitFormat /\ [][NextFormat]_vars

\* The counter store comes back without seq:<p> (a restart without its
\* persistence, an eviction) and the API process is started again: main opens
\* its connections and runs SyncCountersOnStartup before it serves. The queue,
\* the audit rows and the reset epoch are as they were.
CounterStoreLoss(p) ==
    /\ recon.pc = "serving"
    /\ \A c \in Callers : call[c].pc = "idle"
    /\ seq[p] # Absent
    /\ faults < MaxFaults
    /\ faults' = faults + 1
    /\ seq' = [seq EXCEPT ![p] = Absent]
    /\ start' = [start EXCEPT ![p] = 0]
    /\ recon' = [pc |-> "boot", found |-> seq']
    /\ UNCHANGED <<call, issued, lostAudit, nextMid, nextBatch, nadv,
                   queue, work, acked, dlq, deliv, rows, adm,
                   resetLog, checkpoint, nextReset, epoch,
                   confVars, errs, cancelled>>

\* One caller's issuance with publishes that may fail and a worker, the loss
\* of a counter key followed by the restart's reconciliation
NextLoss ==
    \/ \E p \in Prefixes : GetNextIncr("c1", p)
    \/ \E ok \in BOOLEAN : GetNextPublish("c1", ok)
    \/ WorkerProcess("w1", TRUE)
    \/ WorkerSettle("w1")
    \/ \E p \in Prefixes : CounterStoreLoss(p)
    \/ SyncStart
    \/ SyncGetMax
    \/ SyncGetCounter
    \/ SyncSetCounter
    \/ SyncCheckpoint(TRUE)

SpecLoss == Init /\ [][NextLoss]_vars

\* GetNext of another API instance, from the config lookup to the INCR: that
\* instance has been serving since its own start, wherever this one's stands
PeerGetNextIncr(c, p) ==
    /\ call[c].pc = "idle"
    /\ GetPrefixConfig(p) # NoConfig
    /\ Advance(c, p, 1, "next", NoBatch, IncrementCounter(p))
    /\ UNCHANGED <<issued, lostAudit, nextMid, nextBatch, brokerVars, rows,
                   resetVars, recon, confVars, errs, cancelled>>

\* An instance starting (its reconciler run, then its own issuance) on the
\* counter store and audit store another, serving instance is using
NextPeer ==
    \/ SyncStart
    \/ SyncGetMax
    \/ SyncGetCounter
    \/ SyncSetCounter
    \/ SyncCheckpoint(TRUE)
    \/ \E p \in Prefixes : PeerGetNextIncr("c2", p)
    \/ GetNextPublish("c2", TRUE)
    \/ \E p \in Prefixes : GetNextIncr("c1", p)
    \/ GetNextPublish("c1", TRUE)

SpecPeer == InitRecovery /\ [][NextPeer]_vars

\* SyncCountersOnStartup when GetAllPrefixConfigs returns an error: the run
\* returns it for every prefix, main logs it and goes on to start the servers
SyncConfigsFail ==
    /\ recon.pc = "boot"
    /\ recon' = [pc |-> "serving", found |-> recon.found]
    /\ errs' = errs \cup {[op |-> "sync", prefix |-> p, err |-> "configs"] :
                            p \in Configured}
    /\ UNCHANGED <<seq, call, issued, lostAudit, nextMid, nextBatch, nadv,
                   brokerVars, rows, adm, resetVars, confVars, cancelled>>

\* SyncCountersOnStartup, the loop, when GetMaxCounter, GetCounter or the
\* SetCounter of a prefix returns an error: it is logged and the loop goes on
\* with the next prefix, without the write and without the checkpoint
SyncPrefixFail ==
    /\ \/ /\ recon.pc = "max" /\ recon.todo # {}
          /\ \E p \in recon.todo :
               /\ recon' = [pc |-> "max", todo |-> recon.todo \ {p},
                            found |-> recon.found]
               /\ errs' = errs \cup {[op |-> "sync", prefix |-> p, err |-> "max"]}
       \/ /\ recon.pc = "cur"
          /\ recon' = [pc |-> "max", todo |-> recon.todo, found |-> recon.found]
          /\ errs' = errs \cup {[op |-> "sync", prefix |-> recon.prefix,
                                 err |-> "cur"]}
       \/ /\ recon.pc = "set" /\ recon.max > recon.cur
          /\ recon' = [pc |-> "max", todo |-> recon.todo, found |-> recon.found]
          /\ errs' = errs \cup {[op |-> "sync", prefix |-> recon.prefix,
                                 err |-> "set"]}
    /\ UNCHANGED <<seq, call, issued, lostAudit, nextMid, nextBatch, nadv,
                   brokerVars, rows, adm, resetVars, confVars, cancelled>>

\* the startup reconciliation of p ended in an error
SyncFailed(p) == \E e \in errs : e.op = "sync" /\ e.prefix = p

\* A process start on drawn stores that may fail the reconciler's reads and
\* writes, then issuance
NextBoot ==
    \/ SyncStart
    \/ SyncConfigsFail
    \/ SyncGetMax
    \/ SyncGetCounter
    \/ SyncSetCounter
    \/ SyncPrefixFail
    \/ SyncCheckpoint(TRUE)
    \/ IssueNext({"c1"}, {TRUE})

SpecBoot == InitRecovery /\ [][NextBoot]_vars

\* One caller's single and batch issuance, resets without force, the queue
\* with its TTL and a worker: no forced reset, and the counter store keeps its
\* keys
NextBound ==
    \/ IssueNext({"c1"}, {TRUE})
    \/ \E a \in Admins, p \in Configured, v \in 0..MaxSet :
         ResetStart(a, p, v, FALSE)
    \/ ResetSteps({TRUE})
    \/ \E up \in BOOLEAN : WorkerProcess("w1", up)
    \/ WorkerSettle("w1")
    \/ MessageExpire

SpecBound == Init /\ [][NextBound]_vars

\* ------------------------------------------------------------- properties

\* C1: when N single-id requests on a prefix whose counter stood at start have
\* all returned, with no reset since and nothing else issued, the counters
\* they returned are exactly start+1 .. start+N: none repeated (N ids, N
\* counters), none at or below start, none skipped.
C1_ConcurrentIssueContiguous ==
    \A p \in Configured :
      LET R == {id \in issued : id.prefix = p /\ id.epoch = epoch[p]}
          publishing == {c \in Callers : /\ call[c].pc = "publish"
                                         /\ call[c].prefix = p
                                         /\ call[c].ep = epoch[p]}
      IN (publishing = {} /\ \A id \in R : id.op = "next")
         => {id.counter : id \in R} = (start[p] + 1)..(start[p] + Cardinality(R))

\* two single-id requests that overlapped in time (the one that advanced first
\* published last) have both returned, after a counter that stood above 0
C1_Witness ==
    \E x, y \in issued :
      /\ x.prefix = "SG" /\ x.epoch = epoch["SG"]
      /\ y.prefix = "SG" /\ y.epoch = epoch["SG"]
      /\ \A c \in Callers : call[c].pc = "idle"
      /\ \A id \in issued : id.epoch = epoch["SG"] => id.op = "next"
      /\ x.serial < y.serial /\ x.mid > y.mid
      /\ start["SG"] > 0

\* C2: within one epoch of a prefix, a request serialized after another gets
\* strictly larger counters, and the ranges of two requests (single ids being
\* ranges of one) never overlap.
C2_MonotonicDisjoint ==
    \A x, y \in issued :
      (x.prefix = y.prefix /\ x.epoch = y.epoch /\ x.serial < y.serial)
      => /\ x.counter < y.counter
         /\ (x.counter - x.idx) + x.k - 1 < y.counter - y.idx

\* a batch of two returned after another request of the same epoch
C2_Witness ==
    \E x, y \in issued :
      /\ x.prefix = y.prefix /\ x.epoch = y.epoch /\ x.serial < y.serial
      /\ y.op = "batch" /\ y.k = 2 /\ y.idx = 1
      /\ x.counter >= 1

\* C6: a reset without force to a value at or below the value read is answered
\* UnsafeReset in a step that leaves the counter, the reset log and the
\* checkpoint as they were; and no reset without force that got past the check
\* (and so may write later) has a target at or below the value it read.
C6_UnsafeResetRejected ==
    /\ [][\A a \in Admins, p \in Configured, v \in 0..MaxSet :
            (ResetStart(a, p, v, FALSE) /\ v <= GetCounter(p))
            => /\ adm'[a].pc = "done" /\ adm'[a].status = "UnsafeReset"
               /\ UNCHANGED <<seq, resetLog, checkpoint>>]_vars
    /\ [](\A a \in Admins :
            adm[a].pc \in {"watch", "exec", "record"}
            => (adm[a].force \/ adm[a].setTo > adm[a].cur))

\* a reset without force to exactly the current value, above 0, was rejected
C6_Witness ==
    \E a \in Admins :
      /\ adm[a].pc = "done" /\ adm[a].status = "UnsafeReset"
      /\ ~adm[a].force /\ adm[a].setTo = adm[a].cur /\ adm[a].cur >= 1
      /\ seq[adm[a].prefix] = adm[a].cur

\* C8: a single-id request whose event the broker did not take still returns
\* its id; the counter is not taken back (it stays at or above the id's value
\* for the rest of the epoch); and no other id of the epoch has that value.
C8_PublishFailureKeepsId ==
    /\ \A m \in lostAudit :
         \/ \E x \in issued : x.mid = m
         \/ \E c \in Callers : /\ call[c].pc = "publish" /\ call[c].op = "batch"
                               /\ \E i \in 1..Len(call[c].ids) : call[c].ids[i].mid = m
    /\ \A x \in issued :
         (x.mid \in lostAudit /\ x.op = "next")
         => /\ epoch[x.prefix] = x.epoch => GetCounter(x.prefix) >= x.counter
            /\ \A y \in issued :
                 (y.prefix = x.prefix /\ y.epoch = x.epoch /\ y.counter = x.counter)
                 => y = x

\* an id whose publish failed was returned, and a later request of the same
\* epoch returned the next value
C8_Witness ==
    \E x, y \in issued :
      /\ x.mid \in lostAudit /\ x.op = "next"
      /\ y.prefix = x.prefix /\ y.epoch = x.epoch /\ y.serial > x.serial
      /\ y.counter = x.counter + 1

\* C9: a batch request for k ids (1 <= k <= 1000) advanced the counter once,
\* from c to c + k, and returned k ids with counters c+1 .. c+k in ascending
\* order, pairwise distinct message ids and one batch id no other request
\* has; each id's event, when the broker took it, is the only event with
\* that message id and carries the batch id.
C9_BatchRange ==
    \A x \in issued :
      LET Reply == {y \in issued : y.serial = x.serial}
      IN x.op = "batch"
      => /\ 1 <= x.k /\ x.k <= MAX_BATCH
         /\ Cardinality(Reply) = x.k
         /\ {y.idx : y \in Reply} = 0..(x.k - 1)
         /\ \A y \in Reply : /\ y.counter = x.from + 1 + y.idx
                             /\ y.from = x.from
                             /\ y.batch = x.batch
         /\ Cardinality({y.mid : y \in Reply}) = x.k
         /\ x.batch # NoBatch
         /\ \A y \in issued : y.batch = x.batch => y \in Reply
         /\ x.mid \notin lostAudit
            => /\ {e \in queue : e.mid = x.mid}
                    = {[mid |-> x.mid, prefix |-> x.prefix, counter |-> x.counter,
                        batch |-> x.batch, retry |-> 0, full |-> x.full,
                        clientID |-> x.clientID, generatedBy |-> x.generatedBy,
                        at |-> x.at, correlationID |-> x.correlationID]}

\* a batch of two returned, from a counter above 0, with both events taken
C9_Witness ==
    \E x \in issued :
      /\ x.op = "batch" /\ x.k = 2 /\ x.idx = 1 /\ x.from >= 1
      /\ \A y \in {z \in issued : z.serial = x.serial} :
           \E e \in queue : e.mid = y.mid /\ e.batch = x.batch

\* C4: however many times an event was delivered, and to whichever workers,
\* once the audit store has answered for it there is exactly one row for its
\* (prefix, counter) and exactly one for its message id, and every delivery
\* the store answered is one the consumer acknowledges.
C4_RedeliveryOneRow ==
    /\ \A e \in acked \cup {work[w].ev :
                         w \in {v \in Workers : /\ work[v].pc = "settle"
                                                /\ work[v].got # "unavailable"}} :
         /\ Cardinality({r \in rows : r.prefix = e.prefix /\ r.counter = e.counter}) = 1
         /\ Cardinality({r \in rows : r.mid = e.mid}) = 1
    /\ \A w \in Workers :
         (work[w].pc = "settle" /\ work[w].got # "unavailable") => ~work[w].err

\* C5: the audit store never holds two rows for one (prefix, counter) nor two
\* rows for one message id.
C5_UniqueRows ==
    \A r1, r2 \in rows :
      ((r1.prefix = r2.prefix /\ r1.counter = r2.counter) \/ r1.mid = r2.mid)
      => r1 = r2

\* with two rows stored, an event is delivered a third time (its row is there
\* since an earlier delivery) and the insertion meets the conflict
C5_Witness ==
    \E w \in Workers :
      /\ work[w].pc = "settle" /\ work[w].got = "conflict_key"
      /\ deliv[work[w].ev.mid] >= 3
      /\ \E r \in rows : r.mid = work[w].ev.mid
      /\ Cardinality(rows) >= 2

\* C7: every id whose event the broker took eventually has a row for its
\* (prefix, counter) that carries its message id, when workers keep taking
\* and settling deliveries and the audit store answers.
C7_EventuallyAudited ==
    \A m \in 1..MaxIds :
      (\E e \in queue : e.mid = m)
      ~> (\E x \in issued, r \in rows :
            /\ x.mid = m /\ r.mid = m
            /\ r.prefix = x.prefix /\ r.counter = x.counter)

\* C10: an insertion that meets a unique-key conflict, on (prefix, counter) or
\* on the message id alone, counts as done: the handler reports no error and
\* the consumer's next step for the delivery acknowledges the event, putting
\* it neither back in the queue nor in the dead-letter queue.
C10_ConflictsAcked ==
    /\ [](\A w \in Workers :
            (work[w].pc = "settle" /\ work[w].got \in {"conflict_key", "conflict_mid"})
            => ~work[w].err)
    /\ [][\A w \in Workers :
            (WorkerSettle(w) /\ work[w].got \in {"conflict_key", "conflict_mid"})
            => /\ work[w].ev \in acked'
               /\ work[w].ev \notin queue' /\ work[w].ev \notin dlq']_vars

\* C3: the API process started after a crash, with rows in the audit store
\* and the counter key absent or holding any value, and its reconciler ran.
\* Every id issued afterwards has a counter above every counter of the
\* prefix in the audit store; and when the key was absent or below the audit
\* maximum, the first request after the start gets the maximum plus one.
C3_AboveAuditAfterRecovery ==
    \A x \in issued :
      LET old == {r.counter : r \in {y \in rows : y.prefix = x.prefix}}
      IN /\ \A c \in old : x.counter > c
         /\ (/\ x.serial = x.k /\ x.idx = 0
             /\ recon.found[x.prefix] = Absent
                  \/ \E c \in old : recon.found[x.prefix] < c)
            => \A m \in 0..MaxOld :
                 ((m = 0 /\ old = {}) \/ (m \in old /\ \A c \in old : c <= m))
                 => x.counter = m + 1

\* the key was absent, the audit store held rows up to MaxOld, with one
\* missing below, and the first request after the start returned MaxOld + 1
C3_Witness ==
    \E x \in issued :
      /\ recon.pc = "serving" /\ recon.found[x.prefix] = Absent
      /\ x.op = "next" /\ x.serial = 1
      /\ x.counter = MaxOld + 1
      /\ {r.counter : r \in rows} = {1, MaxOld}

\* C11: an event whose insertion fails on every delivery is handed to a
\* handler at most RETRY_LIMIT times: after that many failed deliveries it is
\* in the dead-letter queue, not back in the queue. (The event is alone in the
\* system, no row was ever inserted, and every fault so far was a failed
\* delivery of it, so each of its deliveries failed and was settled.)
C11_RetryBudget ==
    \A e \in queue :
      (/\ queue = {e} /\ rows = {} /\ acked = {} /\ dlq = {}
       /\ \A w \in Workers : work[w].pc = "idle"
       /\ faults = deliv[e.mid])
      => deliv[e.mid] < RETRY_LIMIT

\* C12: an event is acknowledged only by a consumer whose insertion for it
\* returned a row or met the (prefix, counter) conflict; a delivery whose
\* worker dies before the ack is back in the queue; no published event is
\* lost (each is queued, held, acknowledged or dead-lettered); and every
\* acknowledged event has a row for its (prefix, counter).
C12_AckAfterInsert ==
    /\ [](/\ \A e \in acked :
               \E r \in rows : r.prefix = e.prefix /\ r.counter = e.counter
          /\ \A x \in issued :
               x.mid \notin lostAudit
               => \E e \in queue \cup acked \cup dlq
                           \cup {work[w].ev : w \in {v \in Workers : work[v].pc = "settle"}} :
                    e.mid = x.mid /\ e.prefix = x.prefix /\ e.counter = x.counter)
    /\ [][/\ \A e \in acked' \ acked :
               \E w \in Workers : /\ work[w].pc = "settle" /\ work[w].ev = e
                                  /\ work[w].got \in {"inserted", "conflict_key"}
          /\ \A w \in Workers :
               WorkerCrash(w) => (work[w].ev \in queue' /\ work[w].ev \notin acked')]_vars

\* an event was acknowledged on its third delivery or later (the earlier ones
\* ended with the store not answering or with the worker dying) and has its row
C12_Witness ==
    \E e \in acked :
      /\ deliv[e.mid] >= 3
      /\ \E r \in rows : r.mid = e.mid /\ r.prefix = e.prefix /\ r.counter = e.counter

C14_YearTemplate ==
    \A id \in issued :
      config[id.prefix].template = <<Lit("INV"), VerbD(0), Lit("-"), VerbD(4)>>
        => id.full = "INV" \o ToString(year) \o "-"
                       \o ZeroPad(ToString(id.counter), 4)

\* C15: an id issued under a template of literal text and one integer
\* placeholder of width N has as full_number the literal followed by the
\* counter zero-padded to N digits, and under %s%0Nd the prefix followed by
\* the counter zero-padded to N digits, whatever padding_length and prefix the
\* configuration row holds
C15_WidthTemplate ==
    \A id \in issued :
      LET t == config[id.prefix].template
      IN (Len(t) = 2 /\ t[2].t = "d" /\ t[2].w > 0)
           => /\ t[1].t = "lit"
                   => id.full = t[1].s \o ZeroPad(ToString(id.counter), t[2].w)
              /\ t[1].t = "s"
                   => id.full = id.prefix \o ZeroPad(ToString(id.counter), t[2].w)

\* C16: GetNext and GetNextBatch on a prefix without configuration row reply
\* "not configured" and change nothing: the counter key keeps its value (or
\* stays absent), no request for the prefix gets past the lookup, no id of
\* the prefix is issued and no event of it is published
C16_NotConfiguredNoEffect ==
    /\ [](\A p \in Prefixes \ DOMAIN config :
            /\ \A c \in Callers : call[c].pc # "idle" => call[c].prefix # p
            /\ \A id \in issued : id.prefix # p
            /\ \A e \in queue : e.prefix # p)
    /\ [][/\ \A p \in Prefixes \ DOMAIN config : seq'[p] = seq[p]
          /\ errs' # errs =>
               /\ \A r \in errs' \ errs :
                    r.prefix \notin DOMAIN config /\ r.err = "not configured"
               /\ UNCHANGED <<seq, call, issued, lostAudit, nextMid,
                              nextBatch, queue>>]_vars

\* C16 witness: both operations were refused on PO, whose key is still
\* absent, after an id of the configured prefix was issued
C16_Witness ==
    /\ \E r \in errs : r.op = "next" /\ r.prefix = "PO"
    /\ \E r \in errs : r.op = "batch" /\ r.prefix = "PO"
    /\ seq["PO"] = Absent
    /\ \E id \in issued : id.prefix = "SG"

C18_AdvancedIsReturned ==
    /\ [](\A p \in Prefixes : \A v \in 1..GetCounter(p) :
            \/ \E id \in issued : id.prefix = p /\ id.counter = v
            \/ \E c \in Callers :
                 /\ call[c].pc = "publish" /\ call[c].prefix = p
                 /\ call[c].from < v /\ v <= call[c].end)
    /\ [][\A c \in Callers :
            (call[c].pc = "publish" /\ call'[c] # call[c])
              => \/ /\ call'[c].pc = "publish"
                    /\ Len(call'[c].ids) = Len(call[c].ids) + 1
                 \/ /\ call'[c].pc = "idle"
                    /\ Len(call[c].ids) + 1 = call[c].k
                    /\ Cardinality(issued' \ issued) = call[c].k]_vars
    /\ \A c \in Callers : (call[c].pc = "publish") ~> (call[c].pc = "idle")

\* C18 witness: an id was returned by a batch request that was cancelled
\* after its advance and whose publish of that id failed
C18_Witness ==
    \E id \in issued :
      /\ id.serial \in cancelled
      /\ id.mid \in lostAudit
      /\ id.op = "batch" /\ id.k = 2

\* C19: an event moves only PENDING -> IN_FLIGHT, IN_FLIGHT -> ACKED,
\* IN_FLIGHT -> REQUEUED, REQUEUED -> IN_FLIGHT and IN_FLIGHT ->
\* DEAD_LETTERED (PENDING: in the queue, never delivered; REQUEUED: in the
\* queue after a delivery; IN_FLIGHT: held by a consumer); an acknowledged or
\* dead-lettered event is in no queue and with no consumer, and no row is
\* inserted under the message id of a dead-lettered event
C19_EventTransitions ==
    /\ [](\A e \in acked \cup dlq :
            /\ e \notin queue
            /\ \A w \in Workers : work[w].pc = "settle" => work[w].ev # e)
    /\ [][LET Place(e, q, held, a, d, n) ==
                IF e \in a THEN "ACKED"
                ELSE IF e \in d THEN "DEAD_LETTERED"
                ELSE IF e \in held THEN "IN_FLIGHT"
                ELSE IF e \in q
                     THEN (IF n[e.mid] = 0 THEN "PENDING" ELSE "REQUEUED")
                     ELSE "NONE"
              Held == {work[w].ev : w \in {x \in Workers : work[x].pc = "settle"}}
              HeldNext == {work'[w].ev :
                             w \in {x \in Workers : work'[x].pc = "settle"}}
          IN \A e \in queue \cup Held \cup acked \cup dlq :
               LET from == Place(e, queue, Held, acked, dlq, deliv)
                   to == Place(e, queue', HeldNext, acked', dlq', deliv')
               IN from # to =>
                    <<from, to>> \in {<<"PENDING", "IN_FLIGHT">>,
                                      <<"IN_FLIGHT", "ACKED">>,
                                      <<"IN_FLIGHT", "REQUEUED">>,
                                      <<"REQUEUED", "IN_FLIGHT">>,
                                      <<"IN_FLIGHT", "DEAD_LETTERED">>}]_vars
    /\ [][\A r \in rows' \ rows : \A e \in dlq : r.mid # e.mid]_vars

\* C19 as it holds: the same, with the two moves the queue's message TTL adds,
\* PENDING -> DEAD_LETTERED and REQUEUED -> DEAD_LETTERED
C19_EventTransitionsTTL ==
    /\ [](\A e \in acked \cup dlq :
            /\ e \notin queue
            /\ \A w \in Workers : work[w].pc = "settle" => work[w].ev # e)
    /\ [][LET Place(e, q, held, a, d, n) ==
                IF e \in a THEN "ACKED"
                ELSE IF e \in d THEN "DEAD_LETTERED"
                ELSE IF e \in held THEN "IN_FLIGHT"
                ELSE IF e \in q
                     THEN (IF n[e.mid] = 0 THEN "PENDING" ELSE "REQUEUED")
                     ELSE "NONE"
              Held == {work[w].ev : w \in {x \in Workers : work[x].pc = "settle"}}
              HeldNext == {work'[w].ev :
                             w \in {x \in Workers : work'[x].pc = "settle"}}
          IN \A e \in queue \cup Held \cup acked \cup dlq :
               LET from == Place(e, queue, Held, acked, dlq, deliv)
                   to == Place(e, queue', HeldNext, acked', dlq', deliv')
               IN from # to =>
                    <<from, to>> \in {<<"PENDING", "IN_FLIGHT">>,
                                      <<"IN_FLIGHT", "ACKED">>,
                                      <<"IN_FLIGHT", "REQUEUED">>,
                                      <<"REQUEUED", "IN_FLIGHT">>,
                                      <<"IN_FLIGHT", "DEAD_LETTERED">>,
                                      <<"PENDING", "DEAD_LETTERED">>,
                                      <<"REQUEUED", "DEAD_LETTERED">>}]_vars
    /\ [][\A r \in rows' \ rows : \A e \in dlq : r.mid # e.mid]_vars

\* C19 witness: one event was dead-lettered by the TTL after a delivery and a
\* requeue, another by the consumer on its first delivery
C19_Witness ==
    /\ \E e \in dlq : Unmarshals(e) /\ e.retry = 0 /\ deliv[e.mid] >= 1
    /\ \E e \in dlq : Unmarshals(e) /\ e.retry = RETRY_LIMIT - 1 /\ deliv[e.mid] = 1

\* C20: a message whose body does not parse is taken without the handler
\* running (no insertion is attempted, seq_log is unchanged), the consumer's
\* answer to it is a rejection to the dead-letter queue that leaves the
\* consumer free for the next message, it is never back in the queue after a
\* delivery unless a worker died holding it, and no row ever carries its
\* message id
C20_UnparsableDeadLettered ==
    /\ [](\A m \in queue :
            (~Unmarshals(m) /\ deliv[m.mid] >= 1) => faults >= 1)
    /\ [](\A r \in rows : \A m \in queue \cup dlq :
            ~Unmarshals(m) => r.mid # m.mid)
    /\ [][\A w \in Workers :
            /\ (/\ work[w].pc = "idle" /\ work'[w].pc = "settle"
                /\ ~Unmarshals(work'[w].ev))
                 => rows' = rows /\ work'[w].got = "unparsable"
            /\ (/\ work[w].pc = "settle" /\ work'[w].pc = "idle"
                /\ ~Unmarshals(work[w].ev) /\ faults' = faults)
                 => /\ work[w].ev \in dlq' /\ work[w].ev \notin queue'
                    /\ work[w].ev \notin acked' /\ rows' = rows]_vars

\* C20 witness: a message that does not parse is in the dead-letter queue
\* after one delivery, no worker died, and the other message of the queue was
\* inserted and acknowledged
C20_Witness ==
    /\ faults = 0
    /\ \E m \in dlq : ~Unmarshals(m) /\ deliv[m.mid] = 1
    /\ \E e \in acked : \E r \in rows : r.mid = e.mid

\* C21: GetNextBatch with a count below 1 or above 1000 replies "invalid
\* count" and changes nothing (counter, requests, ids, message and batch ids,
\* queue and seq_log as they were), whatever the prefix; no batch request at
\* work has such a count; the counts 1 and 1000 pass the check
C21_InvalidCountNoEffect ==
    /\ [](/\ ValidCount(1) /\ ValidCount(MAX_BATCH)
          /\ ~ValidCount(0) /\ ~ValidCount(MAX_BATCH + 1))
    /\ [](\A c \in Callers :
            (call[c].pc = "publish" /\ call[c].op = "batch")
              => 1 <= call[c].k /\ call[c].k <= MAX_BATCH)
    /\ [](\A r \in errs :
            r.err = "invalid count" => r.k < 1 \/ r.k > MAX_BATCH)
    /\ [][errs' # errs =>
            UNCHANGED <<seq, call, issued, lostAudit, nextMid, nextBatch, nadv,
                        queue, rows>>]_vars

\* C21 witness: the counts -1, 0 and 1001 were refused, one of them on the
\* prefix without configuration, a batch of one was returned and the counter
\* stands at 1
C21_Witness ==
    /\ \A k \in BadCounts : \E r \in errs : r.err = "invalid count" /\ r.k = k
    /\ \E r \in errs : r.err = "invalid count" /\ r.prefix = "PO"
    /\ \E id \in issued : id.op = "batch" /\ id.k = 1
    /\ seq["SG"] = 1 /\ seq["PO"] = Absent

\* C22: a batch request advances the counter once by k and then publishes id
\* by id: a publish that fails changes neither the counter nor the request's
\* course, the ids after it are still published, the reply carries all k ids,
\* and the counter stays at or above the end of the batch's range
C22_BatchPublishBestEffort ==
    /\ [](\A x \in issued :
            x.op = "batch"
              => /\ Cardinality({y \in issued : y.serial = x.serial}) = x.k
                 /\ GetCounter(x.prefix) >= x.from + x.k
                 /\ x.mid \notin lostAudit => \E e \in queue : e.mid = x.mid)
    /\ [][\A c \in Callers :
            (call[c].pc = "publish" /\ call[c].op = "batch" /\ call'[c] # call[c])
              => /\ seq' = seq
                 /\ \/ /\ call'[c].pc = "publish"
                       /\ Len(call'[c].ids) = Len(call[c].ids) + 1
                       /\ call'[c].end = call[c].end
                    \/ /\ call'[c].pc = "idle"
                       /\ Len(call[c].ids) + 1 = call[c].k
                       /\ Cardinality(issued' \ issued) = call[c].k]_vars

\* C22 witness: a batch of two was returned whose first publish failed and
\* whose second event is in the queue; the counter kept the advance by two
C22_Witness ==
    \E x, y \in issued :
      /\ x.op = "batch" /\ x.k = 2 /\ y.serial = x.serial
      /\ x.idx = 0 /\ y.idx = 1
      /\ x.mid \in lostAudit
      /\ \E e \in queue : e.mid = y.mid /\ e.counter = y.counter
      /\ GetCounter(x.prefix) = x.from + 2

\* C23: a GetNext or GetNextBatch whose INCR / INCRBY returns an error replies
\* with the error "failed to increment counter" and nothing else: no request
\* goes on to build ids, no id is returned, no message or batch id is minted
\* and nothing is published; every id ever returned and every event ever
\* published came from an advance that returned
C23_StoreFailureNoId ==
    /\ [](/\ Cardinality(issued) <= nadv /\ nextMid <= nadv
          /\ \A e \in queue : e.mid <= nextMid)
    /\ [][faults' # faults =>
            /\ \E r \in errs' : r.err = "failed to increment counter"
            /\ UNCHANGED <<call, issued, lostAudit, nextMid, nextBatch, nadv,
                           queue, rows>>]_vars

\* C23 witness: a single request and a batch request failed on the store,
\* one of them with the counter advanced all the same, and the next request
\* was served
C23_Witness ==
    /\ \E r \in errs : r.op = "next" /\ r.err = "failed to increment counter"
    /\ \E r \in errs : r.op = "batch" /\ r.err = "failed to increment counter"
    /\ \E id \in issued : id.counter > Cardinality(issued)
    /\ faults = 2

\* C24: whenever an administrator may send a request, a reset request with a
\* negative set_to, an empty reason or an empty admin user, forced or not,
\* has one outcome only: the reply InvalidRequest with the counter,
\* seq_reset_log and the checkpoints as they were
C24_InvalidResetRejected ==
    \A a \in Admins, p \in Configured, v \in SetTos, r \in Reasons,
       u \in AdminUsers, f \in BOOLEAN :
      (/\ v < 0 \/ r = "" \/ u = ""
       /\ adm[a].pc \in {"idle", "done"})
        => /\ ENABLED ResetCounter(a, p, v, r, u, f)
           /\ ~ENABLED (/\ ResetCounter(a, p, v, r, u, f)
                        /\ ~(/\ adm'[a].pc = "done"
                             /\ adm'[a].status = "InvalidRequest"
                             /\ seq' = seq
                             /\ resetLog' = resetLog
                             /\ checkpoint' = checkpoint))

\* C24 witness: a forced reset to 0 with an empty reason was refused while
\* the counter stood at 1 and no reset had been recorded
C24_Witness ==
    \E a \in Admins :
      /\ adm[a].pc = "done" /\ adm[a].status = "InvalidRequest"
      /\ adm[a].force /\ adm[a].setTo = 0 /\ adm[a].reason = ""
      /\ adm[a].adminUser = "a1"
      /\ seq["SG"] = 1 /\ resetLog = {}

\* C25: a reset whose read of the counter fails, whose replacement is refused
\* because the key was written since the WATCH, or whose replacement fails on
\* the connection replies with an error and writes neither seq_reset_log nor
\* the checkpoint, then or later; rows and checkpoints are written only by a
\* reset whose replacement returned
C25_EngineFailureNoRecord ==
    /\ [](Cardinality(resetLog) <= nextReset)
    /\ [][/\ (resetLog' # resetLog \/ checkpoint' # checkpoint)
               => \E a \in Admins : adm[a].pc = "record" /\ adm'[a].pc = "done"
          /\ \A a \in Admins :
               /\ (adm[a].pc = "exec" /\ adm[a].dirty /\ adm'[a] # adm[a])
                    => /\ adm'[a].pc = "done"
                       /\ adm'[a].status = "ResetFailed"
                       /\ seq' = seq
               /\ (faults' # faults /\ adm'[a] # adm[a])
                    => /\ adm'[a].pc = "done"
                       /\ adm'[a].status \in {"GetFailed", "ResetFailed"}
               /\ (adm'[a] # adm[a] /\ adm'[a].pc = "done"
                   /\ adm'[a].status \in {"GetFailed", "ResetFailed"})
                    => resetLog' = resetLog /\ checkpoint' = checkpoint]_vars

\* C25 witness: after a failed read and a failed replacement the store holds
\* no reset row and no checkpoint, and the counter was replaced by the
\* transaction whose reply was lost
C25_Witness ==
    /\ faults = 2
    /\ \E a \in Admins : adm[a].pc = "done" /\ adm[a].status = "ResetFailed"
    /\ seq["SG"] = 0 /\ epoch["SG"] = 1 /\ nadv >= 1
    /\ resetLog = {}
    /\ checkpoint["SG"] = NoCheckpoint

\* C26: for a reset whose replacement was done, when InsertResetLog fails the
\* only outcome is: the counter as it is (not set back), no seq_reset_log
\* row, the reply ok with the old value, set_to and the reset id, and the
\* checkpoint of the prefix at set_to whenever the checkpoint write succeeds
C26_LogFailureKeepsReset ==
    \A a \in Admins, synced \in BOOLEAN :
      adm[a].pc = "record"
        => /\ ENABLED ResetRecord(a, FALSE, synced)
           /\ ~ENABLED (/\ ResetRecord(a, FALSE, synced)
                        /\ ~(/\ seq' = seq
                             /\ resetLog' = resetLog
                             /\ adm'[a].pc = "done" /\ adm'[a].status = "ok"
                             /\ adm'[a].old = adm[a].old
                             /\ adm'[a].setTo = adm[a].setTo
                             /\ adm'[a].rid = adm[a].rid
                             /\ checkpoint'[adm[a].prefix] =
                                  IF synced THEN [last |-> adm[a].setTo, by |-> a]
                                  ELSE checkpoint[adm[a].prefix]))

\* C26 witness: a forced reset to 0 of a counter that stood at 1 replied ok,
\* the counter is 0, seq_reset_log is empty and the checkpoint is at 0
C26_Witness ==
    \E a \in Admins :
      /\ adm[a].pc = "done" /\ adm[a].status = "ok"
      /\ adm[a].old = 1 /\ adm[a].setTo = 0
      /\ seq[adm[a].prefix] = 0
      /\ resetLog = {}
      /\ checkpoint[adm[a].prefix] = [last |-> 0, by |-> a]

\* C27: the engine's reset is atomic against advances and other resets of the
\* same key. Every write to seq:<p> made while a reset holds its WATCH on p
\* invalidates that WATCH; a reset whose EXEC takes effect finds in the store
\* the very value it read and reports as old, no write having come between,
\* and leaves set_to there; a reset whose EXEC is refused fails and writes
\* nothing.
C27_ResetAtomic ==
    [][\A a \in AdminConns :
         adm[a].pc = "exec" =>
           LET p == adm[a].prefix
           IN /\ (adm'[a].pc = "exec" /\ (seq'[p] # seq[p] \/ epoch'[p] # epoch[p]))
                   => adm'[a].dirty
              /\ adm'[a].pc = "record"
                   => /\ ~adm[a].dirty
                      /\ adm'[a].old = GetCounter(p)
                      /\ seq'[p] = adm[a].setTo
                      /\ epoch'[p] = epoch[p] + 1
              /\ adm'[a].pc = "done"
                   => /\ adm'[a].status = "ResetFailed"
                      /\ seq' = seq /\ epoch' = epoch]_vars

\* two resets held their WATCH on the same key at once, and a caller advanced
\* it: one reset took effect and the other was refused
C27_Witness ==
    /\ adm["a1"].pc = "done" /\ adm["a1"].status = "ResetFailed"
    /\ adm["a2"].pc = "done" /\ adm["a2"].status = "ok"
    /\ adm["a1"].prefix = adm["a2"].prefix
    /\ adm["a1"].setTo # adm["a2"].setTo
    /\ nadv > 0

\* C28: a reconciler run leaves, for every configured prefix, the checkpoint
\* at the maximum counter of the prefix's audit rows (0 when it has none),
\* synced by 'system', whether or not it wrote the counter; seq_checkpoint
\* holds one row per prefix at most, and the run touches no other prefix's.
C28_CheckpointIsAuditMax ==
    /\ [][recon.pc = "ckpt" /\ recon'.pc # "ckpt"
           => /\ checkpoint'[recon.prefix] =
                   [last |-> GetMaxCounter(recon.prefix), by |-> "system"]
              /\ \A q \in Prefixes \ {recon.prefix} :
                   checkpoint'[q] = checkpoint[q]]_vars
    /\ [](recon.pc = "serving"
           => \A p \in Configured :
                checkpoint[p] = [last |-> GetMaxCounter(p), by |-> "system"])
    /\ [](DOMAIN checkpoint = Prefixes)

\* a run that found the counter ahead of the audit rows and left it alone has
\* set the checkpoint to the rows' maximum all the same
C28_Witness ==
    /\ recon.pc = "serving"
    /\ \E p \in Configured :
         /\ recon.last.prefix = p
         /\ recon.last.max < recon.last.cur
         /\ recon.last.max > 0
         /\ seq[p] = recon.found[p]
         /\ checkpoint[p] = [last |-> recon.last.max, by |-> "system"]

\* C29: a status request for a prefix replies with the counter as current (0
\* when seq:<prefix> does not exist) and current + 1 as next, and changes
\* nothing: the counter store is left as it was, an absent key still absent,
\* and so are the queue, the dead letters and the audit store.
C29_StatusReadsOnly ==
    [][\A c \in Callers :
         (call'[c] # call[c] /\ call'[c].pc = "idle" /\ call[c].pc = "idle")
           => \E p \in Prefixes :
                /\ call'[c].status.prefix = p
                /\ call'[c].status.current = (IF seq[p] = Absent THEN 0 ELSE seq[p])
                /\ call'[c].status.next = call'[c].status.current + 1
                /\ seq' = seq
                /\ queue' = queue /\ dlq' = dlq /\ acked' = acked
                /\ rows' = rows /\ resetLog' = resetLog
                /\ checkpoint' = checkpoint]_vars

\* statuses were asked of a prefix never issued, whose key is still absent,
\* and of a prefix with ids issued and an audit row behind the counter
C29_Witness ==
    /\ "status" \in DOMAIN call["c2"]
    /\ call["c2"].status.prefix = "SG"
    /\ call["c2"].status.current = 2
    /\ call["c2"].status.next = 3
    /\ call["c2"].status.lastAudit = 1
    /\ seq["SG"] = 2
    /\ seq["PO"] = Absent

\* C30: the event published for an issued id, and the row a worker inserts
\* from that event, carry the prefix, counter, full_number, message_id and
\* generated_at the caller received, and the client_id and generated_by of the
\* id (which the REST caller receives too); the event is published with
\* retry_count 0.
C30_OneCopyTravels ==
    \A id \in issued :
      LET got == IssuedID(id)
          Same(x) == /\ x.prefix = got.prefix
                     /\ x.counter = got.counter
                     /\ x.full = got.full
                     /\ x.mid = got.mid
                     /\ x.at = got.at
                     /\ x.clientID = id.clientID
                     /\ x.generatedBy = id.generatedBy
      IN /\ \A e \in queue : e.mid = id.mid => Same(e) /\ e.retry = 0
         /\ \A r \in rows : r.mid = id.mid => Same(r)

\* C31: when the caller of a single or a batch issuance passed a correlation
\* id, the event published for each of its ids, and the row a worker inserts
\* from that event, carry that correlation id.
C31_CorrelationCarried ==
    \A id \in issued :
      id.correlationID # ""
        => /\ \A e \in queue : e.mid = id.mid
                                 => e.correlationID = id.correlationID
           /\ \A r \in rows : r.mid = id.mid
                                => r.correlationID = id.correlationID

\* C32: an id whose publish returned without error has its event held by the
\* broker, in the queue (waiting or delivered and not yet acknowledged) or
\* among the dead letters, or has a row with its message id in the audit
\* store.
C32_PublishedIsKept ==
    \A id \in issued :
      id.mid \notin lostAudit
        => \/ \E e \in queue \cup dlq : e.mid = id.mid
           \/ \E w \in Workers : work[w].pc = "settle" /\ work[w].ev.mid = id.mid
           \/ \E r \in rows : r.mid = id.mid

\* C33: seq_log only grows, and only by a worker's insertion. Every row stays
\* as it is in every step; a step that changes the set of rows is a worker
\* taking a delivery and adds exactly one row, that of the delivered event;
\* a worker whose insertion meets a conflict leaves the rows as they were.
C33_RowsAppendOnly ==
    [][/\ rows \subseteq rows'
       /\ rows' # rows
            => \E w \in Workers :
                 /\ work[w].pc = "idle" /\ work'[w].pc = "settle"
                 /\ work'[w].got = "inserted"
                 /\ \E r \in rows' : /\ rows' = rows \cup {r}
                                      /\ r.mid = work'[w].ev.mid
                                      /\ r.prefix = work'[w].ev.prefix
                                      /\ r.counter = work'[w].ev.counter
       /\ \A w \in Workers :
            (/\ work[w].pc = "idle" /\ work'[w].pc = "settle"
             /\ work'[w].got \in {"conflict_key", "conflict_mid"})
              => rows' = rows]_vars

\* after a reconciler run and a forced reset, a worker's insertion met the row
\* of an earlier issuance under the same (prefix, counter), and that row is
\* still there beside a row inserted since the start
C33_Witness ==
    /\ \E w \in Workers :
         /\ work[w].pc = "settle" /\ work[w].got = "conflict_key"
         /\ \E x \in rows : /\ x.prefix = work[w].ev.prefix
                             /\ x.counter = work[w].ev.counter
                             /\ x.mid # work[w].ev.mid
    /\ \E x \in rows : x.mid > 0
    /\ \E a \in Admins : adm[a].pc = "done" /\ adm[a].status = "ok"
    /\ "status" \in DOMAIN call["c1"]

\* C34: once the shutdown has begun no new issuance is taken; a connection
\* is closed only when no issuance is in progress or the deadline has passed
\* with some still running; and the connections are closed in the reverse of
\* the order they were opened in: broker, audit store, counter store.
C34_ShutdownOrder ==
    /\ [][/\ recon.pc # "serving"
              => \A c \in Callers : call[c].pc = "idle" => call'[c].pc = "idle"
          /\ (recon.pc = "closing" /\ recon'.closed # recon.closed)
              => (recon.late \/ \A c \in Callers : call[c].pc = "idle")]_vars
    /\ [](recon.pc = "exited"
           => /\ Len(recon.closed) = Len(Opened)
              /\ \A i \in 1..Len(Opened) :
                   recon.closed[i] = Opened[Len(Opened) + 1 - i])


\* C35: within one reset epoch of a prefix no counter is returned by two
\* issuances, also after the counter store lost the prefix's key and the
\* restart's reconciliation seeded it again from the audit rows while events of
\* earlier issuances were still queued or had been lost by a failed publish.
C35_NoReissueAfterStoreLoss ==
    \A x, y \in issued :
      (x.prefix = y.prefix /\ x.epoch = y.epoch /\ x.counter = y.counter)
      => x.mid = y.mid


\* C36: the replacement step of a reset without force never leaves the counter
\* of its prefix below the value it had before the step, whatever issuances
\* took effect between the reset's safety check and the replacement.
C36_UnforcedResetNeverLowers ==
    [][\A a \in Admins :
         (ResetExec(a) /\ ~adm[a].force)
         => seq'[adm[a].prefix] >= GetCounter(adm[a].prefix)]_vars


\* C37: while one instance runs its startup reconciliation and another serves
\* issuance on the same prefix, the reconciler's write never leaves the key
\* below the value it had just before the write, and no counter of the prefix
\* is returned by two issuances.
C37_ReconcileBesidePeer ==
    /\ [][SyncSetCounter
           => (seq'[recon.prefix] = seq[recon.prefix]
               \/ seq'[recon.prefix] > GetCounter(recon.prefix))]_vars
    /\ [](\A x, y \in issued :
            (x.prefix = y.prefix /\ x.counter = y.counter) => x.serial = y.serial)


\* C38: the process serves a prefix only after that prefix's startup
\* reconciliation succeeded: no request advances the counter of a prefix, and
\* no id of it is returned, when the run failed as a whole or for that prefix.
C38_ServeOnlyReconciled ==
    /\ \A c \in Callers : call[c].pc # "idle" => ~SyncFailed(call[c].prefix)
    /\ \A id \in issued : ~SyncFailed(id.prefix)


\* C39: an id issued after a forced reset of its prefix, once the broker has
\* taken its event, eventually has an audit row of its own, carrying its
\* message id and its full number, also when a row of the epoch before the
\* reset holds the same (prefix, counter).
C39_ReissuedCounterAudited ==
    \A m \in 1..MaxIds :
      (\E e \in queue, x \in issued : e.mid = m /\ x.mid = m /\ x.epoch >= 1)
      ~> (\E x \in issued, r \in rows :
            /\ x.mid = m /\ x.epoch >= 1
            /\ r.mid = m /\ r.full = x.full)


\* C40: with no forced reset and no loss of the counter store, the counter
\* carried by every queued event, every event a worker holds, every
\* dead-lettered event and every audit row of a prefix is at least 1 and at
\* most the current value of the prefix's key.
C40_EventsWithinCounter ==
    \A e \in queue \cup dlq \cup rows
             \cup {work[w].ev : w \in {v \in Workers : work[v].pc = "settle"}} :
      e.counter >= 1 /\ e.counter <= GetCounter(e.prefix)

====
